---- MODULE Spec2Model ----
(***************************************************************************)
(* Specification matching, ranking and selection of the RFP response       *)
(* system: the stand-alone runner (technical_agent_runner.py), the backend *)
(* TechnicalAgent (backend/agents/technical_agent.py) with the             *)
(* orchestrator's technical_node (backend/orchestrator.py), the legacy     *)
(* TechnicalAgent (agent.py), and the PricingAgent                         *)
(* (agents/pricing_agent.py).                                              *)
(*                                                                         *)
(* Values.  A Python value is a record [kind, n, negz, s]:                 *)
(*   kind = "none"            None                                         *)
(*   kind = "bool"            True / False          (n = Scale or 0)       *)
(*   kind = "int"             an int                (n = value * Scale)    *)
(*   kind = "float"           a float               (n = value * Scale,    *)
(*                            negz marks the float -0.0)                   *)
(*   kind = "str"             a str, s its characters, one per element     *)
(*   kind = "bigint"          the int n * 10 ^ MaxDigits, n = 1 or -1: an  *)
(*                            int beyond the range of a float              *)
(* Numbers are exact decimals with Decimals fractional digits.  The one    *)
(* place where binary rounding decides a result of the code, a ratio that  *)
(* is exactly 0.10 in decimal arithmetic with a non-integral operand, is   *)
(* left open: the comparators take the outcome there as a parameter (tie)  *)
(* and the actions draw it from BOOLEAN.                                   *)
(***************************************************************************)
EXTENDS Integers, Sequences, FiniteSets, TLC

\* Number of fractional decimal digits kept by the number model.
Decimals == 3
Scale == 10 ^ Decimals

\* Number of zeros of the largest integer among the inputs, 10 ^ MaxDigits.
MaxDigits == 400
\* A decimal integer of more than DoubleDigits digits exceeds every float
\* (sys.float_info.max is about 1.8 * 10 ^ 308).
DoubleDigits == 309

Abs(x) == IF x < 0 THEN -x ELSE x

----------------------------------------------------------------------------
(* Python values *)

PyNone == [kind |-> "none", n |-> 0, negz |-> FALSE, s |-> <<>>]
PyInt(i) == [kind |-> "int", n |-> i * Scale, negz |-> FALSE, s |-> <<>>]
\* a float given in units of 1/Scale
PyFloat(m) == [kind |-> "float", n |-> m, negz |-> FALSE, s |-> <<>>]
PyNegZero == [kind |-> "float", n |-> 0, negz |-> TRUE, s |-> <<>>]
PyBool(b) == [kind |-> "bool", n |-> IF b THEN Scale ELSE 0, negz |-> FALSE, s |-> <<>>]
PyStr(chars) == [kind |-> "str", n |-> 0, negz |-> FALSE, s |-> chars]
\* the int sign * 10 ^ MaxDigits
PyBigInt(sign) == [kind |-> "bigint", n |-> sign, negz |-> FALSE, s |-> <<>>]

\* isinstance(v, (int, float)); bool is a subclass of int
IsNumber(v) == v.kind \in {"int", "float", "bool"}
\* an int that no float can hold
IsHuge(v) == v.kind = "bigint"

----------------------------------------------------------------------------
(* Characters and strings (sequences of one-character strings) *)

DigitChars == <<"0", "1", "2", "3", "4", "5", "6", "7", "8", "9">>
UpperChars == <<"A", "B", "C", "D", "E", "F", "G", "H", "I", "J", "K", "L", "M",
                "N", "O", "P", "Q", "R", "S", "T", "U", "V", "W", "X", "Y", "Z">>
LowerChars == <<"a", "b", "c", "d", "e", "f", "g", "h", "i", "j", "k", "l", "m",
                "n", "o", "p", "q", "r", "s", "t", "u", "v", "w", "x", "y", "z">>

\* str.isdigit on one character
IsDigit(c) == \E i \in 1..10 : DigitChars[i] = c
DigitVal(c) == (CHOOSE i \in 1..10 : DigitChars[i] = c) - 1
\* the characters str.strip removes
IsSpace(c) == c \in {" ", "\t", "\n"}

\* str.lower on one character
LowerChar(c) ==
    IF \E i \in 1..26 : UpperChars[i] = c
    THEN LowerChars[CHOOSE i \in 1..26 : UpperChars[i] = c]
    ELSE c

\* str.lower
Lower(s) == [i \in 1..Len(s) |-> LowerChar(s[i])]

\* str.strip
Strip(s) ==
    IF \A i \in 1..Len(s) : IsSpace(s[i]) THEN <<>>
    ELSE LET first == CHOOSE i \in 1..Len(s) :
                          /\ ~IsSpace(s[i])
                          /\ \A j \in 1..(i - 1) : IsSpace(s[j])
             last == CHOOSE i \in 1..Len(s) :
                          /\ ~IsSpace(s[i])
                          /\ \A j \in (i + 1)..Len(s) : IsSpace(s[j])
         IN SubSeq(s, first, last)

\* needle in hay (Python's substring test; the empty string is in every string)
Contains(hay, needle) ==
    \E i \in 0..(Len(hay) - Len(needle)) :
        SubSeq(hay, i + 1, i + Len(needle)) = needle

\* ''.join(ch for ch in s if keep(ch))
FilterChars(s, keep) == SelectSeq(s, LAMBDA ch : ch \in keep)

DigitSet == {DigitChars[i] : i \in 1..10}

\* the value of a string of decimal digits
RECURSIVE DigitsValue(_)
DigitsValue(ds) ==
    IF ds = <<>> THEN 0
    ELSE 10 * DigitsValue(SubSeq(ds, 1, Len(ds) - 1)) + DigitVal(ds[Len(ds)])

\* the decimal digits of a natural number
RECURSIVE NatDigits(_)
NatDigits(k) ==
    IF k < 10 THEN <<DigitChars[k + 1]>>
    ELSE NatDigits(k \div 10) \o <<DigitChars[(k % 10) + 1]>>

\* the fractional digits of f / 10^width as repr prints them: no trailing zero
RECURSIVE FracDigits(_, _)
FracDigits(f, width) ==
    IF f = 0 THEN <<>>
    ELSE <<DigitChars[(f \div (10 ^ (width - 1))) + 1]>>
         \o FracDigits(f % (10 ^ (width - 1)), width - 1)

\* repr prints at least one fractional digit
AtLeastOneDigit(frac) == IF frac = <<>> THEN <<"0">> ELSE frac

\* str(v)
ToStr(v) ==
    CASE v.kind = "none" -> <<"N", "o", "n", "e">>
      [] v.kind = "bool" -> IF v.n # 0 THEN <<"T", "r", "u", "e">>
                                       ELSE <<"F", "a", "l", "s", "e">>
      [] v.kind = "int" -> (IF v.n < 0 THEN <<"-">> ELSE <<>>)
                           \o NatDigits(Abs(v.n) \div Scale)
      [] v.kind = "float" ->
            (IF v.n < 0 \/ v.negz THEN <<"-">> ELSE <<>>)
            \o NatDigits(Abs(v.n) \div Scale) \o <<".">>
            \o AtLeastOneDigit(FracDigits(Abs(v.n) % Scale, Decimals))
      [] v.kind = "bigint" -> (IF v.n < 0 THEN <<"-">> ELSE <<>>)
                              \o <<"1">> \o [i \in 1..MaxDigits |-> "0"]
      [] OTHER -> v.s

\* float(t) for a string t of digits, '.' and '-' : [ok, n, negz].
\* Accepted: an optional leading '-', then digits with at most one '.', at
\* least one digit.  Fractional digits beyond Decimals are dropped.
WellFormedNumber(body) ==
    /\ \A i \in 1..Len(body) : body[i] # "-"
    /\ Cardinality({i \in 1..Len(body) : body[i] = "."}) <= 1
    /\ \E i \in 1..Len(body) : IsDigit(body[i])

DotIndex(body) ==
    IF \E i \in 1..Len(body) : body[i] = "."
    THEN CHOOSE i \in 1..Len(body) : body[i] = "."
    ELSE Len(body) + 1

FracScaled(frac) == DigitsValue(frac) * (10 ^ (Decimals - Len(frac)))

FracValue(fracAll) ==
    FracScaled(SubSeq(fracAll, 1, IF Len(fracAll) < Decimals THEN Len(fracAll) ELSE Decimals))

Magnitude(body, dot) ==
    DigitsValue(SubSeq(body, 1, dot - 1)) * Scale
    + FracValue(SubSeq(body, dot + 1, Len(body)))

Parsed(mag, neg) ==
    [ok |-> TRUE, n |-> IF neg THEN -mag ELSE mag, negz |-> neg /\ mag = 0]

ParseUnsigned(body, neg) ==
    IF ~WellFormedNumber(body) THEN [ok |-> FALSE, n |-> 0, negz |-> FALSE]
    ELSE Parsed(Magnitude(body, DotIndex(body)), neg)

ParseFloat(t) ==
    IF t # <<>> /\ Head(t) = "-" THEN ParseUnsigned(Tail(t), TRUE)
    ELSE ParseUnsigned(t, FALSE)

----------------------------------------------------------------------------
(* technical_agent_runner.py: normaliser and comparator *)

NumericChars == DigitSet \cup {".", "-"}

\* the result of the try block of normalize_spec_value: the parsed float, or
\* s.lower() when float() raised
NumberOrLower(num, s) ==
    IF num.ok THEN [kind |-> "float", n |-> num.n, negz |-> num.negz, s |-> <<>>]
    ELSE PyStr(Lower(s))

\* normalize_spec_value parsing the digits alone
NormalizeString_DigitsOnly(s) ==
    IF \E i \in 1..Len(s) : IsDigit(s[i])
    THEN NumberOrLower(ParseFloat(FilterChars(s, DigitSet)), s)
    ELSE PyStr(Lower(s))

\* normalize_spec_value from `s = str(v).strip()` on
NormalizeString(s) ==
    IF \E i \in 1..Len(s) : IsDigit(s[i])
    THEN NumberOrLower(ParseFloat(FilterChars(s, NumericChars)), s)
    ELSE PyStr(Lower(s))

\* normalize_spec_value(v)
normalize_spec_value(v) ==
    IF v.kind = "none" THEN PyNone
    ELSE IF IsNumber(v) \/ IsHuge(v) THEN v
    ELSE NormalizeString(Strip(ToStr(v)))

\* whether a number's value is integral (its double is then exact)
IsIntegral(v) == v.n % Scale = 0

\* diff / den <= 0.10 on doubles.  Away from the boundary the decimal ratio
\* decides; on it, integral operands give the double 0.1 exactly, and
\* otherwise the rounding of the operands decides (tie).
RatioDecision(diff, den, exact, tie) ==
    IF 10 * diff = den THEN (IF exact THEN TRUE ELSE tie)
    ELSE 10 * diff < den

\* the divisor (abs(r) if abs(r) > 0 else 1)
RunnerDivisor(r) == IF Abs(r.n) > 0 THEN Abs(r.n) ELSE Scale

\* abs(o - r) / (abs(r) if abs(r) > 0 else 1) <= 0.10
RatioWithinTolerance(r, o, tie) ==
    RatioDecision(Abs(o.n - r.n), RunnerDivisor(r), IsIntegral(r) /\ IsIntegral(o), tie)

\* d / Scale < 1e-6 for a natural d, i.e. d < ceiling(Scale / 10^6)
BelowEpsilon(d) ==
    d < (Scale \div (10 ^ 6)) + (IF Scale % (10 ^ 6) = 0 THEN 0 ELSE 1)

\* rs == os, or rs in os or os in rs
StringsMatch(rs, os) ==
    IF rs = os THEN TRUE
    ELSE Contains(os, rs) \/ Contains(rs, os)

\* the string branch of compare_values: exact or substring
StringMatch(r, o) == StringsMatch(Lower(ToStr(r)), Lower(ToStr(o)))

\* the numeric branch of compare_values when r or o is an int beyond the
\* floats.  int - float converts the int and raises OverflowError; int / int
\* raises OverflowError when the quotient is beyond the floats.
HugeRaises(r, o) ==
    IF r.kind = "float" \/ o.kind = "float" THEN TRUE
    ELSE IF IsHuge(r) THEN FALSE
    ELSE r.n # 0

\* its result when it does not raise: 0 against a huge int is no match, a
\* huge int against a small one has ratio 1, two huge ints have ratio 0 or 2
HugeMatch(r, o) == IsHuge(r) /\ IsHuge(o) /\ r.n = o.n

\* compare_values after the normalisation of both values
CompareNormalized(r, o, tie) ==
    IF IsNumber(r) /\ IsNumber(o)
    THEN IF r.n = 0 THEN BelowEpsilon(Abs(o.n - r.n))
         ELSE RatioWithinTolerance(r, o, tie)
    ELSE IF (IsNumber(r) \/ IsHuge(r)) /\ (IsNumber(o) \/ IsHuge(o))
    THEN ~HugeRaises(r, o) /\ HugeMatch(r, o)
    ELSE StringMatch(r, o)

\* whether compare_values raises after the normalisation of both values
NormalizedRaises(r, o) ==
    IF IsNumber(r) /\ IsNumber(o) THEN FALSE
    ELSE IF (IsNumber(r) \/ IsHuge(r)) /\ (IsNumber(o) \/ IsHuge(o))
    THEN HugeRaises(r, o)
    ELSE FALSE

\* whether compare_values(rfp_val, oem_val) raises
compare_values_raises(rfp_val, oem_val) ==
    IF rfp_val.kind = "none" THEN FALSE
    ELSE IF oem_val.kind = "none" THEN FALSE
    ELSE NormalizedRaises(normalize_spec_value(rfp_val), normalize_spec_value(oem_val))

\* compare_values(rfp_val, oem_val)
compare_values(rfp_val, oem_val, tie) ==
    IF rfp_val.kind = "none" THEN FALSE
    ELSE IF oem_val.kind = "none" THEN FALSE
    ELSE CompareNormalized(normalize_spec_value(rfp_val),
                           normalize_spec_value(oem_val), tie)

\* whether compare_values, after the normalisation of both values, evaluates
\* a division whose divisor is 0
DividesNormalizedByZero(r, o) ==
    IF IsNumber(r) /\ IsNumber(o)
    THEN IF r.n = 0 THEN FALSE ELSE RunnerDivisor(r) = 0
    ELSE FALSE

\* whether compare_values(rfp_val, oem_val) evaluates a division by zero
compare_values_divides_by_zero(rfp_val, oem_val) ==
    IF rfp_val.kind = "none" THEN FALSE
    ELSE IF oem_val.kind = "none" THEN FALSE
    ELSE DividesNormalizedByZero(normalize_spec_value(rfp_val),
                                 normalize_spec_value(oem_val))

----------------------------------------------------------------------------
(* backend/agents/technical_agent.py: comparator *)

\* float(ds) for a string of digits: [ok, n, inf]; float('') raises, and a
\* number of more than DoubleDigits digits gives inf
DigitsFloat(ds) ==
    IF ds = <<>> THEN [ok |-> FALSE, n |-> 0, inf |-> FALSE]
    ELSE IF Len(ds) > DoubleDigits /\ ds[1] # "0" THEN [ok |-> TRUE, n |-> 1, inf |-> TRUE]
    ELSE [ok |-> TRUE, n |-> DigitsValue(ds), inf |-> FALSE]

\* float(''.join(filter(str.isdigit, text)))
DigitsOnlyFloat(text) == DigitsFloat(FilterChars(text, DigitSet))

\* the try block of _compare_spec_values; a raised exception is swallowed and
\* False returned.  With inf on a side the ratio is nan or inf, the equality
\* with 0 false.
BackendCompareNumbers(rfp_num, oem_num) ==
    IF ~rfp_num.ok \/ ~oem_num.ok THEN FALSE
    ELSE IF rfp_num.inf \/ oem_num.inf THEN FALSE
    ELSE IF rfp_num.n = 0 THEN rfp_num.n = oem_num.n
    ELSE 10 * Abs(rfp_num.n - oem_num.n) < rfp_num.n

\* _compare_spec_values after str(...).lower().strip() of both values
BackendCompareStrings(rfp_str, oem_str) ==
    IF rfp_str = oem_str THEN TRUE
    ELSE BackendCompareNumbers(DigitsOnlyFloat(rfp_str), DigitsOnlyFloat(oem_str))

\* TechnicalAgent._compare_spec_values(rfp_value, oem_value)
backend_compare_spec_values(rfp_value, oem_value) ==
    BackendCompareStrings(Strip(Lower(ToStr(rfp_value))),
                          Strip(Lower(ToStr(oem_value))))

\* whether the try block of _compare_spec_values evaluates a division by zero
BackendNumbersDivideByZero(rfp_num, oem_num) ==
    IF ~rfp_num.ok \/ ~oem_num.ok THEN FALSE
    ELSE IF rfp_num.n = 0 THEN FALSE
    ELSE rfp_num.n = 0

BackendStringsDivideByZero(rfp_str, oem_str) ==
    IF rfp_str = oem_str THEN FALSE
    ELSE BackendNumbersDivideByZero(DigitsOnlyFloat(rfp_str), DigitsOnlyFloat(oem_str))

\* whether TechnicalAgent._compare_spec_values(rfp_value, oem_value) evaluates
\* a division by zero
backend_divides_by_zero(rfp_value, oem_value) ==
    BackendStringsDivideByZero(Strip(Lower(ToStr(rfp_value))),
                               Strip(Lower(ToStr(oem_value))))

----------------------------------------------------------------------------
(* agent.py (legacy TechnicalAgent): comparator.  The try block has no      *)
(* guard for rfp_num = 0: the division raises ZeroDivisionError, which the   *)
(* bare except swallows.                                                     *)

\* the try block of the legacy _compare_spec_values
LegacyCompareNumbers(rfp_num, oem_num) ==
    IF ~rfp_num.ok \/ ~oem_num.ok THEN FALSE
    ELSE IF rfp_num.inf \/ oem_num.inf THEN FALSE
    ELSE IF rfp_num.n = 0 THEN FALSE
    ELSE 10 * Abs(rfp_num.n - oem_num.n) < rfp_num.n

LegacyCompareStrings(rfp_str, oem_str) ==
    IF rfp_str = oem_str THEN TRUE
    ELSE LegacyCompareNumbers(DigitsOnlyFloat(rfp_str), DigitsOnlyFloat(oem_str))

\* the legacy TechnicalAgent._compare_spec_values(rfp_value, oem_value)
legacy_compare_spec_values(rfp_value, oem_value) ==
    LegacyCompareStrings(Strip(Lower(ToStr(rfp_value))),
                         Strip(Lower(ToStr(oem_value))))

\* whether the try block evaluates abs(rfp_num - oem_num) / rfp_num with
\* rfp_num = 0
LegacyNumbersDivideByZero(rfp_num, oem_num) ==
    IF ~rfp_num.ok \/ ~oem_num.ok THEN FALSE
    ELSE rfp_num.n = 0

LegacyStringsDivideByZero(rfp_str, oem_str) ==
    IF rfp_str = oem_str THEN FALSE
    ELSE LegacyNumbersDivideByZero(DigitsOnlyFloat(rfp_str), DigitsOnlyFloat(oem_str))

\* whether the legacy _compare_spec_values evaluates a division by zero
legacy_divides_by_zero(rfp_value, oem_value) ==
    LegacyStringsDivideByZero(Strip(Lower(ToStr(rfp_value))),
                              Strip(Lower(ToStr(oem_value))))

----------------------------------------------------------------------------
(* Specification sets: a dict is the sequence of its items [k, v] in        *)
(* insertion order, keys distinct.  NoDict stands for a specifications      *)
(* entry that is no dict: the key is absent from the JSON object of the     *)
(* runner, the column is NULL in the row the backend reads.                 *)

NoDict == <<[k |-> "", v |-> PyNone]>>
IsDict(d) == d # NoDict

HasKey(d, key) == \E i \in 1..Len(d) : d[i].k = key

\* d.get(key, default)
DictGet(d, key, default) ==
    IF HasKey(d, key) THEN d[CHOOSE i \in 1..Len(d) : d[i].k = key].v ELSE default

\* the quotient q = floor(x), the remainder rem of x * den, rounded to the
\* nearest integer, an exact half to the even one (Python's round)
RoundHalfEven(q, rem, den) ==
    IF 2 * rem < den THEN q
    ELSE IF 2 * rem > den THEN q + 1
    ELSE IF q % 2 = 0 THEN q ELSE q + 1

\* round(num / den * 100, 2) in hundredths of a percent, den > 0
RoundPercent(num, den) ==
    RoundHalfEven((num * 10000) \div den, (num * 10000) % den, den)

\* one pass of the scoring loop: the detail is recorded, a match is counted
ScoreStep(before, detail) ==
    [details |-> Append(before.details, detail),
     matched |-> before.matched + (IF detail.match THEN 1 ELSE 0)]

\* (pct, details) once the loop is over; divided: matched / total was evaluated
ScoreResult(run, total) ==
    [raised |-> FALSE, pct |-> RoundPercent(run.matched, total), details |-> run.details,
     divided |-> TRUE]

\* the value of the candidate's first attribute, whatever its name
RunnerOemValue_FirstAttribute(oem_specs, key) ==
    IF IsDict(oem_specs) /\ oem_specs # <<>> THEN oem_specs[1].v ELSE PyNone

\* oem_specs.get(k) if isinstance(oem_specs, dict) else None
RunnerOemValue(oem_specs, key) ==
    IF IsDict(oem_specs) THEN DictGet(oem_specs, key, PyNone) ELSE PyNone

\* the detail spec_match_percentage records for one attribute
RunnerDetail(key, rv, ov, tie) ==
    [k |-> key, rfp_value |-> rv, oem_value |-> ov, match |-> compare_values(rv, ov, tie)]

\* the loop of spec_match_percentage over the first n attributes
RECURSIVE RunnerScoreLoop(_, _, _, _)
RunnerScoreLoop(rfp_specs, oem_specs, n, tie) ==
    IF n = 0 THEN [details |-> <<>>, matched |-> 0]
    ELSE ScoreStep(RunnerScoreLoop(rfp_specs, oem_specs, n - 1, tie),
                   RunnerDetail(rfp_specs[n].k, rfp_specs[n].v,
                                RunnerOemValue(oem_specs, rfp_specs[n].k), tie))

\* spec_match_percentage with the counter incremented outside the `if`
spec_match_percentage_CountsAll(rfp_specs, oem_specs, tie) ==
    IF rfp_specs = <<>> \/ ~IsDict(rfp_specs)
    THEN [raised |-> FALSE, pct |-> 0, details |-> <<>>, divided |-> FALSE]
    ELSE [raised |-> FALSE, pct |-> RoundPercent(Len(rfp_specs), Len(rfp_specs)),
          details |-> RunnerScoreLoop(rfp_specs, oem_specs, Len(rfp_specs), tie).details,
          divided |-> TRUE]

\* spec_match_percentage without its first two lines: matched / total raises
\* ZeroDivisionError for an empty rfp_specs
spec_match_percentage_Unguarded(rfp_specs, oem_specs, tie) ==
    IF rfp_specs = <<>> \/ ~IsDict(rfp_specs)
    THEN [raised |-> TRUE, pct |-> 0, details |-> <<>>, divided |-> TRUE]
    ELSE ScoreResult(RunnerScoreLoop(rfp_specs, oem_specs, Len(rfp_specs), tie),
                     Len(rfp_specs))

\* spec_match_percentage(rfp_specs, oem_specs) -> (pct, details); it never raises
spec_match_percentage(rfp_specs, oem_specs, tie) ==
    IF rfp_specs = <<>> \/ ~IsDict(rfp_specs)
    THEN [raised |-> FALSE, pct |-> 0, details |-> <<>>, divided |-> FALSE]
    ELSE ScoreResult(RunnerScoreLoop(rfp_specs, oem_specs, Len(rfp_specs), tie),
                     Len(rfp_specs))

\* the sentinel of the backend for an attribute the candidate lacks
NotSpecified ==
    PyStr(<<"N", "o", "t", " ", "s", "p", "e", "c", "i", "f", "i", "e", "d">>)

\* the detail calculate_spec_match records for one attribute
BackendDetail(spec_name, rfp_value, oem_value) ==
    [k |-> spec_name, rfp_value |-> rfp_value, oem_value |-> oem_value,
     match |-> backend_compare_spec_values(rfp_value, oem_value)]

\* the loop of TechnicalAgent.calculate_spec_match over the first n attributes
RECURSIVE BackendScoreLoop(_, _, _)
BackendScoreLoop(rfp_specs, oem_specs, n) ==
    IF n = 0 THEN [details |-> <<>>, matched |-> 0]
    ELSE ScoreStep(BackendScoreLoop(rfp_specs, oem_specs, n - 1),
                   BackendDetail(rfp_specs[n].k, rfp_specs[n].v,
                                 DictGet(oem_specs, rfp_specs[n].k, NotSpecified)))

\* TechnicalAgent.calculate_spec_match(rfp_specs, oem_specs) -> (pct, comparison);
\* raises (AttributeError on oem_specs.get) when oem_specs is None and
\* rfp_specs is not empty
calculate_spec_match(rfp_specs, oem_specs) ==
    IF rfp_specs = <<>> \/ ~IsDict(rfp_specs)
    THEN [raised |-> FALSE, pct |-> 0, details |-> <<>>, divided |-> FALSE]
    ELSE IF ~IsDict(oem_specs)
         THEN [raised |-> TRUE, pct |-> 0, details |-> <<>>, divided |-> FALSE]
    ELSE ScoreResult(BackendScoreLoop(rfp_specs, oem_specs, Len(rfp_specs)),
                     Len(rfp_specs))

----------------------------------------------------------------------------
(* Ranking and selection.  A key absent from a JSON object of the runner,   *)
(* or a NULL column of a row the backend reads, is the value Missing (for   *)
(* specifications: NoDict); the category None is the string NoCategory.     *)
(* The backend's rows of rfp_products are in product_id order.              *)

Missing == [kind |-> "missing", n |-> 0, negz |-> FALSE, s |-> <<>>]
NoCategory == "<None>"

\* d.get(key, default) for a field that may be Missing
GetOr(value, default) == IF value = Missing THEN default ELSE value

\* x * y for two numbers of which one is integral
Times(x, y) ==
    IF x % Scale = 0 THEN (x \div Scale) * y ELSE x * (y \div Scale)

\* round(x, 2) of a number in units of 1 / Scale
RoundMoney(x) ==
    IF Decimals <= 2 THEN x
    ELSE (10 ^ (Decimals - 2))
         * RoundHalfEven(x \div (10 ^ (Decimals - 2)), x % (10 ^ (Decimals - 2)),
                         10 ^ (Decimals - 2))

\* sorted, with x inserted at position at + 1
InsertAt(sorted, x, at) ==
    SubSeq(sorted, 1, at) \o <<x>> \o SubSeq(sorted, at + 1, Len(sorted))

\* x placed before the elements it ties with: an unstable sort
InsertDesc_BeforeTies(sorted, x) ==
    InsertAt(sorted, x,
             Cardinality({i \in 1..Len(sorted) :
                             sorted[i].spec_match_percentage > x.spec_match_percentage}))

\* x placed behind every element whose percentage is at least its own
InsertDesc(sorted, x) ==
    InsertAt(sorted, x,
             Cardinality({i \in 1..Len(sorted) :
                             sorted[i].spec_match_percentage >= x.spec_match_percentage}))

\* list.sort(key = spec_match_percentage, reverse = True): stable, descending
RECURSIVE SortDescending(_)
SortDescending(list) ==
    IF list = <<>> THEN <<>>
    ELSE InsertDesc(SortDescending(SubSeq(list, 1, Len(list) - 1)), list[Len(list)])

\* list[:3]
FirstThree(list) == SubSeq(list, 1, IF Len(list) < 3 THEN Len(list) ELSE 3)

\* [p for p in repo if p.get('category') == category or p.get('category') is None]
RunnerCandidates(category, repo) ==
    SelectSeq(repo, LAMBDA p : p.category = category \/ p.category = NoCategory)

\* the entry spec_match_percentage's result is appended as
RunnerScoredEntry(c, res) ==
    [oem_product_id |-> c.oem_product_id, sku |-> c.sku,
     spec_match_percentage |-> res.pct, comparison |-> res.details,
     unit_price |-> GetOr(c.unit_price, PyFloat(0))]

\* c.get('specifications', {})
RunnerSpecs(specifications) == IF IsDict(specifications) THEN specifications ELSE <<>>

\* the list `scored` of recommend_top_3_for_product before it is sorted
RunnerScored(rfp_specs, candidates, tie) ==
    [i \in 1..Len(candidates) |->
        RunnerScoredEntry(candidates[i],
            spec_match_percentage(rfp_specs,
                                  RunnerSpecs(candidates[i].specifications), tie))]

\* recommend_top_3_for_product(rfp_product, repo), given `scored`
recommend_top_3_for_product(scored) == FirstThree(SortDescending(scored))

\* the dict `selected` of process_single_rfp for a product with a top
\* recommendation; float * None raises TypeError
RunnerSelectedFor(at, top, quantity) ==
    IF quantity.kind = "none" \/ top.unit_price.kind = "none"
    THEN [raised |-> TRUE, selected |-> <<>>]
    ELSE [raised |-> FALSE,
          selected |-> <<[requirement |-> at,
                          quantity |-> quantity,
                          sku |-> top.sku,
                          spec_match_percentage |-> top.spec_match_percentage,
                          unit_price |-> top.unit_price,
                          total_price |-> RoundMoney(Times(top.unit_price.n, quantity.n))]>>]

\* a placeholder entry for a product without a top recommendation
RunnerSelected_Placeholder(at, prod, recs) ==
    IF recs = <<>>
    THEN [raised |-> FALSE,
          selected |-> <<[requirement |-> at,
                          quantity |-> GetOr(prod.quantity, PyInt(1)),
                          sku |-> "",
                          spec_match_percentage |-> 0,
                          unit_price |-> PyFloat(0),
                          total_price |-> 0]>>]
    ELSE RunnerSelectedFor(at, recs[1], GetOr(prod.quantity, PyInt(1)))

\* `selected` of process_single_rfp: None (the empty sequence) without a top
\* recommendation
RunnerSelected(at, prod, recs) ==
    IF recs = <<>> THEN [raised |-> FALSE, selected |-> <<>>]
    ELSE RunnerSelectedFor(at, recs[1], GetOr(prod.quantity, PyInt(1)))

\* [p['selected'] for p in product_recommendations if p['selected']]
RECURSIVE Flatten(_)
Flatten(lists) ==
    IF lists = <<>> THEN <<>> ELSE Head(lists) \o Flatten(Tail(lists))

\* a NULL column read by the backend is None
Nullable(value) == IF value = Missing THEN PyNone ELSE value

\* the entry calculate_spec_match's result is appended as
BackendScoredEntry(oem_product, res) ==
    [oem_product_id |-> oem_product.oem_product_id, sku |-> oem_product.sku,
     spec_match_percentage |-> res.pct, comparison |-> res.details,
     unit_price |-> Nullable(oem_product.unit_price)]

\* the list `recommendations` of find_top_3_recommendations before it is
\* sorted; get_oem_products_by_category returns every product
BackendScored(rfp_specs, oem_products) ==
    [i \in 1..Len(oem_products) |->
        BackendScoredEntry(oem_products[i],
            calculate_spec_match(rfp_specs, oem_products[i].specifications))]

\* whether calculate_spec_match raises for one of the products
BackendScoringRaises(rfp_specs, oem_products) ==
    \E i \in 1..Len(oem_products) :
        calculate_spec_match(rfp_specs, oem_products[i].specifications).raised

\* TechnicalAgent.find_top_3_recommendations, given `recommendations`
find_top_3_recommendations(scored) == FirstThree(SortDescending(scored))

\* x or 0
OrZero(value) == IF value.kind = "none" \/ value.n = 0 THEN PyInt(0) ELSE value

\* the row select_best_products builds from the rank-1 recommendation rec,
\* the OEM product op it names and the RFP product's quantity
BackendRow(pid, qty, rec, op) ==
    [requirement |-> pid,
     quantity |-> qty,
     sku |-> op.sku,
     spec_match_percentage |-> rec.spec_match_percentage,
     unit_price |-> OrZero(Nullable(op.unit_price)),
     total_price |-> Times(OrZero(qty).n, OrZero(Nullable(op.unit_price)).n)]

\* the OEM product with the given id
OemProductById(oem_products, id) ==
    oem_products[CHOOSE i \in 1..Len(oem_products) : oem_products[i].oem_product_id = id]

\* whether the query for the OEM product returns a row
HasOemProduct(oem_products, id) ==
    \E i \in 1..Len(oem_products) : oem_products[i].oem_product_id = id

\* TechnicalAgent.select_best_products over the first n RFP products: a
\* product without a rank-1 recommendation is skipped
RECURSIVE select_best_products(_, _, _, _)
select_best_products(rfp_products, stored, oem_products, n) ==
    IF n = 0 THEN <<>>
    ELSE select_best_products(rfp_products, stored, oem_products, n - 1)
         \o (IF stored[n] = <<>> THEN <<>>
             ELSE IF ~HasOemProduct(oem_products, stored[n][1].oem_product_id) THEN <<>>
             ELSE <<BackendRow(n, Nullable(rfp_products[n].quantity), stored[n][1],
                               OemProductById(oem_products, stored[n][1].oem_product_id))>>)

----------------------------------------------------------------------------
(* agent.py (legacy TechnicalAgent): scoring, ranking and selection over    *)
(* the tables rfp_products, oem_products and product_recommendations.       *)

\* the detail the legacy calculate_spec_match records for one attribute
LegacyDetail(spec_name, rfp_value, oem_value) ==
    [k |-> spec_name, rfp_value |-> rfp_value, oem_value |-> oem_value,
     match |-> legacy_compare_spec_values(rfp_value, oem_value)]

\* the loop of the legacy calculate_spec_match over the first n attributes
RECURSIVE LegacyScoreLoop(_, _, _)
LegacyScoreLoop(rfp_specs, oem_specs, n) ==
    IF n = 0 THEN [details |-> <<>>, matched |-> 0]
    ELSE ScoreStep(LegacyScoreLoop(rfp_specs, oem_specs, n - 1),
                   LegacyDetail(rfp_specs[n].k, rfp_specs[n].v,
                                DictGet(oem_specs, rfp_specs[n].k, NotSpecified)))

\* the legacy calculate_spec_match(rfp_specs, oem_specs); raises when oem_specs
\* is None and rfp_specs is not empty
legacy_calculate_spec_match(rfp_specs, oem_specs) ==
    IF rfp_specs = <<>> \/ ~IsDict(rfp_specs)
    THEN [raised |-> FALSE, pct |-> 0, details |-> <<>>, divided |-> FALSE]
    ELSE IF ~IsDict(oem_specs)
         THEN [raised |-> TRUE, pct |-> 0, details |-> <<>>, divided |-> FALSE]
    ELSE ScoreResult(LegacyScoreLoop(rfp_specs, oem_specs, Len(rfp_specs)),
                     Len(rfp_specs))

\* the legacy get_oem_products_by_category:
\* WHERE category = %s OR category IS NULL
LegacyCandidates(category, oem_products) ==
    SelectSeq(oem_products,
              LAMBDA p : (category # NoCategory /\ p.category = category)
                         \/ p.category = NoCategory)

\* the entry the legacy find_top_3_recommendations appends
LegacyScoredEntry(oem_product, res) ==
    [oem_product_id |-> oem_product.oem_product_id, sku |-> oem_product.sku,
     spec_match_percentage |-> res.pct, comparison |-> res.details,
     unit_price |-> Nullable(oem_product.unit_price)]

\* the list `recommendations` of the legacy find_top_3_recommendations before
\* it is sorted
LegacyScored(rfp_specs, candidates) ==
    [i \in 1..Len(candidates) |->
        LegacyScoredEntry(candidates[i],
            legacy_calculate_spec_match(rfp_specs, candidates[i].specifications))]

\* whether the legacy calculate_spec_match raises for one of the candidates
LegacyScoringRaises(rfp_specs, candidates) ==
    \E i \in 1..Len(candidates) :
        legacy_calculate_spec_match(rfp_specs, candidates[i].specifications).raised

\* the legacy find_top_3_recommendations, given `recommendations`
legacy_find_top_3_recommendations(entries) == FirstThree(SortDescending(entries))

\* a row of the join of the legacy select_best_products with the total_price
\* it inserts
LegacyRow(pid, quantity, rec, op) ==
    [requirement |-> pid,
     quantity |-> quantity,
     sku |-> op.sku,
     spec_match_percentage |-> rec.spec_match_percentage,
     unit_price |-> Nullable(op.unit_price),
     total_price |-> Times(quantity.n, Nullable(op.unit_price).n)]

\* the rows of the legacy select_best_products over the first n RFP products:
\* the rank-1 recommendations joined with their products, by product_id
RECURSIVE LegacyRows(_, _, _, _)
LegacyRows(rfp_products, stored, oem_products, n) ==
    IF n = 0 THEN <<>>
    ELSE LegacyRows(rfp_products, stored, oem_products, n - 1)
         \o (IF stored[n] = <<>> THEN <<>>
             ELSE <<LegacyRow(n, Nullable(rfp_products[n].quantity), stored[n][1],
                              OemProductById(oem_products, stored[n][1].oem_product_id))>>)

\* product['quantity'] * product['unit_price'] raises TypeError for a NULL
LegacyRowsRaise(rows) ==
    \E e \in 1..Len(rows) : rows[e].quantity.kind = "none" \/ rows[e].unit_price.kind = "none"

\* the legacy select_best_products: [raised, rows]
legacy_select_best_products(rows) ==
    IF LegacyRowsRaise(rows) THEN [raised |-> TRUE, rows |-> <<>>]
    ELSE [raised |-> FALSE, rows |-> rows]

----------------------------------------------------------------------------
(* Win probability.  TechnicalAgent.calculate_win_probability returns a     *)
(* percentage with one decimal, here in tenths of a percent (0..1000).  The *)
(* sum of the three scores is the exact fraction WinNumerator / (200*s*r),  *)
(* s selections for r requirements; where it lies exactly between two       *)
(* tenths the rounding of the doubles decides, left open by the parameter   *)
(* tie.                                                                     *)

\* sum(p.get('spec_match_percentage', 0) for p in selected_products), in
\* hundredths of a percent
RECURSIVE TotalMatch(_)
TotalMatch(selected_products) ==
    IF selected_products = <<>> THEN 0
    ELSE Head(selected_products).spec_match_percentage + TotalMatch(Tail(selected_products))

\* sum(1 for p in selected_products if p.get('spec_match_percentage', 0) < 70)
LowMatches(selected_products) ==
    Cardinality({i \in 1..Len(selected_products) :
                    selected_products[i].spec_match_percentage < 7000})

\* max(0, 10 - low_matches * 5)
ComplianceScore(low_matches) ==
    IF 10 - low_matches * 5 > 0 THEN 10 - low_matches * 5 ELSE 0

\* coverage_score + quality_score + compliance_score, times 200 * s * r
WinNumerator(s, r, total_match, compliance_score) ==
    8000 * s * s + total_match * r + 200 * compliance_score * s * r

\* round(x, 1) of x = num / den, in tenths
RoundTenths(num, den, tie) ==
    IF 2 * ((10 * num) % den) < den THEN (10 * num) \div den
    ELSE IF 2 * ((10 * num) % den) > den THEN ((10 * num) \div den) + 1
    ELSE IF tie THEN ((10 * num) \div den) + 1 ELSE (10 * num) \div den

\* round(min(100.0, max(0.0, win_prob)), 1) of win_prob = num / den
ClampAndRound(num, den, tie) ==
    IF num > 100 * den THEN 1000
    ELSE IF num < 0 THEN 0
    ELSE RoundTenths(num, den, tie)

\* calculate_win_probability with every selection counted as a low match
calculate_win_probability_AllLow(selected_products, rfp_products, tie) ==
    IF rfp_products = <<>> THEN 0
    ELSE IF selected_products = <<>> THEN 0
    ELSE ClampAndRound(
            WinNumerator(Len(selected_products), Len(rfp_products),
                         TotalMatch(selected_products),
                         ComplianceScore(Len(selected_products))),
            200 * Len(selected_products) * Len(rfp_products), tie)

\* TechnicalAgent.calculate_win_probability(selected_products, rfp_products)
calculate_win_probability(selected_products, rfp_products, tie) ==
    IF rfp_products = <<>> THEN 0
    ELSE IF selected_products = <<>> THEN 0
    ELSE ClampAndRound(
            WinNumerator(Len(selected_products), Len(rfp_products),
                         TotalMatch(selected_products),
                         ComplianceScore(LowMatches(selected_products))),
            200 * Len(selected_products) * Len(rfp_products), tie)

\* sum(p.get("spec_match_percentage", 0) or p.get("match_percentage", 0)),
\* in hundredths of a percent; the selections carry no match_percentage
TotalMatchOrZero(products) == TotalMatch(products)

\* calculate_winning_probability(products) of the orchestrator, a probability
\* in hundredths: 0.2 for no products, and else round(1 / (1 + exp(-raw_score)), 2),
\* kept as the fraction raw_num / raw_den that raw_score is
calculate_winning_probability(products) ==
    IF products = <<>>
    THEN [logistic |-> FALSE, hundredths |-> 20, raw_num |-> 0, raw_den |-> 1]
    ELSE [logistic |-> TRUE, hundredths |-> 0,
          raw_num |-> 35 * TotalMatchOrZero(products)
                      + (45000 * Len(products) - 120000) * Len(products),
          raw_den |-> 100000 * Len(products)]

----------------------------------------------------------------------------
(* Inputs of the comparators *)

\* Largest integer among the generated numeric inputs.
MaxInt == 12

\* specification values as they occur in RFP summaries and datasheets
SampleStrings ==
    { <<"9", "5", "s", "q", "m", "m">>,
      <<"9", "5", " ", "s", "q", "m", "m">>,
      <<" ", "9", "5", "S", "Q", "M", "M", " ">>,
      <<"9", "5">>,
      <<"5", "0">>,
      <<"1", ".", "1", "k", "V">>,
      <<"1", "1", "k", "V">>,
      <<"x", "l", "p", "e">>,
      <<"X", "L", "P", "E", " ", "i", "n", "s", "u", "l", "a", "t", "e", "d">>,
      <<"N", "o", "t", " ", "s", "p", "e", "c", "i", "f", "i", "e", "d">>,
      <<"N", "O", "T", " ", "S", "P", "E", "C", "I", "F", "I", "E", "D">>,
      <<"n", "o", "n", "e">>,
      <<"1", "-", "5">>,
      <<"5", ".", "0", ".", "0">>,
      <<>>,
      <<"0">>,
      <<"5">>,
      <<"1", "0">>,
      <<"1", "1">>,
      <<"2", ".", "1">>,
      <<"1", ".", "2", ".", "3">>,
      <<"-", "0">>,
      <<"0", "-", "1", "0">>,
      <<"c", "o", "p", "p", "e", "r">> }

SampleNumbers ==
    {PyInt(i) : i \in -1..MaxInt}
    \cup {PyFloat((k * Scale) \div 10) : k \in 0..MaxInt}
    \cup {PyFloat(k * Scale + Scale \div 2) : k \in 0..MaxInt}
    \cup {PyInt(95), PyInt(100), PyInt(110), PyFloat(-5 * Scale), PyNegZero}

SampleValues ==
    {PyNone, PyBool(TRUE), PyBool(FALSE), PyBigInt(1), PyBigInt(-1)}
    \cup SampleNumbers \cup {PyStr(s) : s \in SampleStrings}

\* r * 1.05, r * 1.1 and r * 1.5 for a positive int or float r
Multiples(r) ==
    IF r.kind \in {"int", "float"} /\ r.n > 0
    THEN {PyFloat((r.n * 105) \div 100), PyFloat((r.n * 110) \div 100),
          PyFloat((r.n * 150) \div 100)}
    ELSE {}

----------------------------------------------------------------------------
(* Inputs of the scorers *)

\* Largest number of attributes of a specification set.
MaxAttrs == 2

AttrNames == <<"size", "voltage", "insulation", "cores">>
UsedAttrs == {AttrNames[i] : i \in 1..MaxAttrs}

ReqSpecValues ==
    {PyStr(<<"9", "5", "s", "q", "m", "m">>),
     PyStr(<<"N", "O", "T", " ", "S", "P", "E", "C", "I", "F", "I", "E", "D">>),
     PyStr(<<"x", "l", "p", "e">>),
     PyNone}

OemSpecValues ==
    {PyStr(<<"9", "5">>),
     PyStr(<<"X", "L", "P", "E", " ", "i", "n", "s", "u", "l", "a", "t", "e", "d">>),
     PyNone}

DistinctKeys(d) == \A i, j \in 1..Len(d) : d[i].k = d[j].k => i = j

\* every requirement specification set: keys in any insertion order
ReqSpecSets ==
    {d \in UNION {[1..n -> [k : UsedAttrs, v : ReqSpecValues]] : n \in 0..MaxAttrs} :
        DistinctKeys(d)}

\* every candidate specification set: keys in the order of AttrNames
OemSpecSets ==
    {d \in UNION {[1..n -> [k : UsedAttrs, v : OemSpecValues]] : n \in 0..MaxAttrs} :
        \A i, j \in 1..Len(d) : i < j =>
            (CHOOSE a \in 1..MaxAttrs : AttrNames[a] = d[i].k)
              < (CHOOSE a \in 1..MaxAttrs : AttrNames[a] = d[j].k)}

----------------------------------------------------------------------------
(* Inputs of ranking and selection *)

\* Largest number of products of an RFP.
MaxProducts == 2
\* Largest number of entries of the catalog.
MaxCatalog == 4

\* the requirement of the end-to-end scenario
ExampleRequirement ==
    [product_name |-> "LT Cable", category |-> "Cable", quantity |-> PyInt(1000),
     specifications |-> <<[k |-> "size", v |-> PyStr(<<"9", "5", "s", "q", "m", "m">>)], [k |-> "voltage", v |-> PyStr(<<"1", ".", "1", "k", "V">>)]>>]
ZeroQuantityPump ==
    [product_name |-> "Pump", category |-> "Pump", quantity |-> PyInt(0),
     specifications |-> <<[k |-> "size", v |-> PyStr(<<"5", "0">>)]>>]
BareRequirement ==
    [product_name |-> "Item", category |-> NoCategory, quantity |-> Missing,
     specifications |-> <<>>]
NullQuantityCable ==
    [product_name |-> "HT Cable", category |-> "Cable", quantity |-> PyNone,
     specifications |-> <<[k |-> "voltage", v |-> PyStr(<<"1", "1", "k", "V">>)], [k |-> "insulation", v |-> PyStr(<<"x", "l", "p", "e">>)]>>]

Requirements == {ExampleRequirement, ZeroQuantityPump, BareRequirement, NullQuantityCable}

\* the catalog entries A and B of the end-to-end scenario
EntryA ==
    [oem_product_id |-> 1, sku |-> "A", category |-> "Cable", unit_price |-> PyInt(100),
     specifications |-> <<[k |-> "size", v |-> PyStr(<<"9", "5">>)], [k |-> "voltage", v |-> PyStr(<<"1", ".", "1", "k", "V">>)]>>]
EntryB ==
    [oem_product_id |-> 2, sku |-> "B", category |-> "Cable", unit_price |-> PyInt(80),
     specifications |-> <<[k |-> "size", v |-> PyStr(<<"5", "0">>)], [k |-> "voltage", v |-> PyStr(<<"1", "1", "k", "V">>)]>>]
\* no category, no price
EntryC ==
    [oem_product_id |-> 3, sku |-> "C", category |-> NoCategory, unit_price |-> Missing,
     specifications |-> <<[k |-> "size", v |-> PyStr(<<"9", "5", " ", "s", "q", "m", "m">>)], [k |-> "insulation", v |-> PyStr(<<"X", "L", "P", "E", " ", "i", "n", "s", "u", "l", "a", "t", "e", "d">>)]>>]
\* no specifications
EntryD ==
    [oem_product_id |-> 4, sku |-> "D", category |-> "Pump",
     unit_price |-> PyFloat(12 * Scale + Scale \div 2), specifications |-> NoDict]
\* scores like A against the example requirement
EntryE ==
    [oem_product_id |-> 5, sku |-> "E", category |-> "Cable", unit_price |-> PyInt(90),
     specifications |-> <<[k |-> "voltage", v |-> PyStr(<<"1", ".", "1", "k", "V">>)], [k |-> "size", v |-> PyStr(<<"9", "5">>)], [k |-> "insulation", v |-> PyStr(<<"p", "v", "c">>)]>>]

CatalogEntries == {EntryA, EntryB, EntryC, EntryD, EntryE}

\* the sequences without repetition of at most n elements of S
InjectiveSeqs(S, n) ==
    {q \in UNION {[1..m -> S] : m \in 0..n} : \A i, j \in 1..Len(q) : q[i] = q[j] => i = j}

----------------------------------------------------------------------------
VARIABLES
    rfp_val,    \* comparator argument: the requirement's value
    oem_val,    \* comparator argument: the candidate's value
    called,     \* which comparator has returned: "none", "runner", "backend",
                \* "legacy"; "normalizer": normalize_spec_value was called
    normalized, \* the values normalize_spec_value returned: for rfp_val, and
                \* then for the value it had returned
    match,      \* its return value
    zero_division,  \* whether the call evaluated a division by zero
    raised,     \* whether the call raised instead of returning
    rfp_specs,  \* scorer argument: the requirement's specification set
    oem_specs,  \* scorer argument: the candidate's specification set
    scored,     \* which scorer has returned: "none", "runner", "backend"
    score,      \* its outcome: [raised, pct, details, divided]
    impl,       \* the implementation that processes the RFP: "runner", "backend",
                \* "legacy"; "estimator": a call of calculate_win_probability
    rfp,        \* the RFP's products (rows of rfp_products in the backend)
    repo,       \* the catalog (rows of oem_products in the backend)
    pc,         \* "products": in the loop over the products; "done"; "error":
                \* raised; "ready_for_review": technical_node has returned;
                \* "estimate", "estimated": before and after the estimator's call
    idx,        \* the product the loop is at
    scored_lists,     \* per product, the scored candidates before the sort
    recommendations,  \* per product, its top-3 recommendations (rows of
                      \* product_recommendations in the backend, rank = position)
    selected,         \* per product, `selected` of the runner (empty: None)
    final_selected,   \* final_selected of the runner, selected_products of the backend
    win_probability,  \* 'win_probability' of TechnicalAgent.process_rfp's result,
                      \* in tenths of a percent (empty: none yet)
    winning_probability, \* rfp["winning_probability"] set by the orchestrator's
                         \* technical_node (empty: none yet)
    product_prices,   \* PricingAgent.product_prices: sku -> [product_name, unit_price]
    test_prices,      \* PricingAgent.test_prices: key -> [test_name, test_price]
    product_recommendations,  \* argument of process_rfp_pricing
    test_requirements,        \* argument of process_rfp_pricing
    pricing_pc,       \* where process_rfp_pricing is: "material", "testing",
                      \* "consolidate", "returned"; "error": raised
    material_costs,   \* the material cost entries
    testing_costs,    \* the testing cost entries
    summary,          \* "summary" of the pricing summary (empty: none yet)
    given,            \* the arguments and tables as they were when the first call
                      \* was made
    calls,            \* the number of the call in progress: 1 or 2
    rounding,         \* how the first call rounded its halfway values: the same
                      \* value is rounded the same way by the second call
    first_call,       \* the result of the first call, once a second is made
    values,           \* the state of the workflow thread (the values of its
                      \* latest checkpoint)
    next_node,        \* the node the graph executes next ("END": none)
    run,              \* "running", "interrupted" (after human_gate), "failed"
                      \* (a node raised) or "ended"
    executed,         \* the nodes executed so far, in order
    resumes,          \* how often the workflow was resumed (astream(None))
    requests,         \* the approve requests: [approved, pc, status]
    keeps_undeclared, \* whether the graph keeps the keys AgentState does not
                      \* declare
    pricing_module,   \* the module agents.pricing_agent resolves to
    strategy,         \* the retry helper that was called
    outcomes,         \* what each call of each function passed to it does:
                      \* "ok", "Exception" or "BaseException" (raised)
    call_log,         \* the functions called so far, in order
    retry_pc,         \* where the helper is: the function it calls next, "done"
    outcome,          \* its own outcome: [kind, by, attempt], once done
    selected_products,  \* the argument of calculate_quote
    quote_pc,         \* "call" or "returned"
    quote             \* the quote returned, in units of 1 / Scale

cmpVars == <<rfp_val, oem_val, called, normalized, match, zero_division, raised>>
scoreVars == <<rfp_specs, oem_specs, scored, score>>
rfpVars == <<impl, rfp, repo, pc, idx, scored_lists, recommendations, selected,
             final_selected, win_probability, winning_probability>>

priceVars == <<product_prices, test_prices, product_recommendations, test_requirements,
               pricing_pc, material_costs, testing_costs, summary>>

callVars == <<given, calls, rounding, first_call>>

graphVars == <<values, next_node, run, executed, resumes, requests, keeps_undeclared,
               pricing_module>>

retryVars == <<strategy, outcomes, call_log, retry_pc, outcome>>

quoteVars == <<selected_products, quote_pc, quote>>

vars == <<cmpVars, scoreVars, rfpVars, priceVars, callVars, graphVars, retryVars, quoteVars>>

NoScore == [raised |-> FALSE, pct |-> 0, details |-> <<>>, divided |-> FALSE]

\* the variables of the comparator calls, when no call is modelled
IdleCompare ==
    /\ rfp_val = PyNone
    /\ oem_val = PyNone
    /\ called = "off"
    /\ normalized = <<>>
    /\ match = FALSE
    /\ zero_division = FALSE
    /\ raised = FALSE

\* the variables of the scorer calls, when no call is modelled
IdleScore ==
    /\ rfp_specs = <<>>
    /\ oem_specs = <<>>
    /\ scored = "off"
    /\ score = NoScore

\* the variables of RFP processing, when none is modelled
IdleRfp ==
    /\ impl = "off"
    /\ rfp = <<>>
    /\ repo = <<>>
    /\ pc = "off"
    /\ idx = 0
    /\ scored_lists = <<>>
    /\ recommendations = <<>>
    /\ selected = <<>>
    /\ final_selected = <<>>
    /\ win_probability = <<>>
    /\ winning_probability = <<>>

\* the variables of the pricing agent, when no pricing is modelled
IdlePricing ==
    /\ product_prices = <<>>
    /\ test_prices = <<>>
    /\ product_recommendations = <<>>
    /\ test_requirements = <<>>
    /\ pricing_pc = "off"
    /\ material_costs = <<>>
    /\ testing_costs = <<>>
    /\ summary = <<>>

\* the variables of the retry helpers and of calculate_quote, when no call
\* is modelled
IdleRetry ==
    /\ strategy = "off"
    /\ outcomes = <<>>
    /\ call_log = <<>>
    /\ retry_pc = "off"
    /\ outcome = <<>>

IdleQuote ==
    /\ selected_products = <<>>
    /\ quote_pc = "off"
    /\ quote = 0

\* the variables of the workflow, when none is modelled
IdleGraph ==
    /\ values = <<>>
    /\ next_node = "off"
    /\ run = "off"
    /\ executed = <<>>
    /\ resumes = 0
    /\ requests = <<>>
    /\ keeps_undeclared = FALSE
    /\ pricing_module = "off"

\* the variables of repeated calls, when none is modelled
IdleCalls ==
    /\ given = <<>>
    /\ calls = 0
    /\ rounding = <<>>
    /\ first_call = <<>>

----------------------------------------------------------------------------
(* Comparator calls *)

\* a call of compare_values(rfp_val, oem_val) of the runner
CallCompareValues ==
    /\ called = "none"
    /\ \E tie \in BOOLEAN : match' = compare_values(rfp_val, oem_val, tie)
    /\ zero_division' = compare_values_divides_by_zero(rfp_val, oem_val)
    /\ raised' = compare_values_raises(rfp_val, oem_val)
    /\ called' = "runner"
    /\ UNCHANGED <<rfp_val, oem_val, normalized, scoreVars, rfpVars, priceVars, callVars, graphVars, retryVars, quoteVars>>

\* a call of TechnicalAgent._compare_spec_values(rfp_val, oem_val) of the backend
CallBackendCompare ==
    /\ called = "none"
    /\ match' = backend_compare_spec_values(rfp_val, oem_val)
    /\ zero_division' = backend_divides_by_zero(rfp_val, oem_val)
    /\ raised' = FALSE
    /\ called' = "backend"
    /\ UNCHANGED <<rfp_val, oem_val, normalized, scoreVars, rfpVars, priceVars, callVars, graphVars, retryVars, quoteVars>>

\* a call of the legacy TechnicalAgent._compare_spec_values(rfp_val, oem_val)
CallLegacyCompare ==
    /\ called = "none"
    /\ match' = legacy_compare_spec_values(rfp_val, oem_val)
    /\ zero_division' = legacy_divides_by_zero(rfp_val, oem_val)
    /\ raised' = FALSE
    /\ called' = "legacy"
    /\ UNCHANGED <<rfp_val, oem_val, normalized, scoreVars, rfpVars, priceVars, callVars, graphVars, retryVars, quoteVars>>

\* a call of normalize_spec_value: of rfp_val, and then of the value returned
CallNormalizeSpecValue ==
    /\ called \in {"none", "normalizer"}
    /\ Len(normalized) < 2
    /\ normalized' =
           Append(normalized,
                  normalize_spec_value(IF normalized = <<>> THEN rfp_val
                                       ELSE normalized[Len(normalized)]))
    /\ called' = "normalizer"
    /\ UNCHANGED <<rfp_val, oem_val, match, zero_division, raised,
                   scoreVars, rfpVars, priceVars, callVars, graphVars, retryVars, quoteVars>>

InitCompare ==
    /\ rfp_val \in SampleValues
    /\ oem_val \in SampleValues \cup Multiples(rfp_val)
    /\ called = "none"
    /\ normalized = <<>>
    /\ match = FALSE
    /\ zero_division = FALSE
    /\ raised = FALSE
    /\ IdleScore
    /\ IdleRfp
    /\ IdlePricing
    /\ IdleCalls
    /\ IdleGraph
    /\ IdleRetry
    /\ IdleQuote

NextCompare ==
    \/ CallCompareValues
    \/ CallBackendCompare
    \/ CallLegacyCompare
    \/ CallNormalizeSpecValue

SpecCompare == InitCompare /\ [][NextCompare]_vars

----------------------------------------------------------------------------
(* Scorer calls *)

\* a call of spec_match_percentage(rfp_specs, oem_specs) of the runner
CallSpecMatchPercentage ==
    /\ scored = "none"
    /\ \E tie \in BOOLEAN : score' = spec_match_percentage(rfp_specs, oem_specs, tie)
    /\ scored' = "runner"
    /\ UNCHANGED <<rfp_specs, oem_specs, cmpVars, rfpVars, priceVars, callVars, graphVars, retryVars, quoteVars>>

\* a call of TechnicalAgent.calculate_spec_match(rfp_specs, oem_specs) of the backend
CallCalculateSpecMatch ==
    /\ scored = "none"
    /\ score' = calculate_spec_match(rfp_specs, oem_specs)
    /\ scored' = "backend"
    /\ UNCHANGED <<rfp_specs, oem_specs, cmpVars, rfpVars, priceVars, callVars, graphVars, retryVars, quoteVars>>

InitScore ==
    /\ rfp_specs \in ReqSpecSets
    /\ oem_specs \in OemSpecSets \cup {NoDict}
    /\ scored = "none"
    /\ score = NoScore
    /\ IdleCompare
    /\ IdleRfp
    /\ IdlePricing
    /\ IdleCalls
    /\ IdleGraph
    /\ IdleRetry
    /\ IdleQuote

NextScore ==
    \/ CallSpecMatchPercentage
    \/ CallCalculateSpecMatch

SpecScore == InitScore /\ [][NextScore]_vars

----------------------------------------------------------------------------
(* Processing of an RFP *)

\* one pass of the loop of process_single_rfp, the scored candidates and
\* `selected` computed
RunnerPass(entries, sel) ==
    IF sel.raised
    THEN /\ pc' = "error"
         /\ UNCHANGED <<idx, scored_lists, recommendations, selected>>
    ELSE /\ scored_lists' = Append(scored_lists, entries)
         /\ recommendations' = Append(recommendations, recommend_top_3_for_product(entries))
         /\ selected' = Append(selected, sel.selected)
         /\ idx' = idx + 1
         /\ pc' = pc

RunnerPassWith(entries) ==
    RunnerPass(entries, RunnerSelected(idx, rfp[idx], recommend_top_3_for_product(entries)))

\* the scoring of the product at idx, a halfway ratio compared as `tie` says
RunnerScoredAt(tie) ==
    RunnerScored(rfp[idx].specifications, RunnerCandidates(rfp[idx].category, repo), tie)

\* floating point is deterministic: the second call compares the ratios of
\* the product at position `at` as the first call did (when it got that far)
RoundsAsBefore(tie, at) == (calls = 2 /\ at <= Len(rounding)) => tie = rounding[at]

\* one product, had recommend_top_3_for_product kept its candidates in the
\* list it was given instead of a new one
RunnerProcessProduct_FiltersCatalog ==
    /\ impl = "runner"
    /\ pc = "products"
    /\ idx <= Len(rfp)
    /\ \E tie \in BOOLEAN :
          /\ RoundsAsBefore(tie, idx)
          /\ RunnerPassWith(RunnerScoredAt(tie))
          /\ rounding' = IF calls = 1
                         THEN Append(rounding,
                                     tie /\ RunnerScoredAt(TRUE) # RunnerScoredAt(FALSE))
                         ELSE rounding
    /\ repo' = RunnerCandidates(rfp[idx].category, repo)
    /\ UNCHANGED <<impl, rfp, final_selected, win_probability,
                   winning_probability, cmpVars, scoreVars, priceVars,
                   given, calls, first_call, graphVars, retryVars, quoteVars>>

\* process_single_rfp, one product: recommend_top_3_for_product and `selected`
RunnerProcessProduct ==
    /\ impl = "runner"
    /\ pc = "products"
    /\ idx <= Len(rfp)
    /\ \E tie \in BOOLEAN :
          /\ RoundsAsBefore(tie, idx)
          /\ RunnerPassWith(RunnerScoredAt(tie))
          /\ rounding' = IF calls = 1
                         THEN Append(rounding,
                                     tie /\ RunnerScoredAt(TRUE) # RunnerScoredAt(FALSE))
                         ELSE rounding
    /\ UNCHANGED <<impl, rfp, repo, final_selected, win_probability,
                   winning_probability, cmpVars, scoreVars, priceVars,
                   given, calls, first_call, graphVars, retryVars, quoteVars>>

\* process_single_rfp after the loop: final_selected
RunnerFinish ==
    /\ impl = "runner"
    /\ pc = "products"
    /\ idx > Len(rfp)
    /\ final_selected' = Flatten(selected)
    /\ pc' = "done"
    /\ UNCHANGED <<impl, rfp, repo, idx, scored_lists, recommendations, selected,
                   win_probability, winning_probability, cmpVars, scoreVars, priceVars,
                   callVars, graphVars, retryVars, quoteVars>>

\* a second call of process_single_rfp with the same rfp and catalog objects,
\* after the first has returned
RunnerCallAgain ==
    /\ impl = "runner"
    /\ pc = "done"
    /\ calls = 1
    /\ first_call' = <<[recommendations |-> recommendations,
                        selected |-> selected,
                        final_selected |-> final_selected]>>
    /\ calls' = 2
    /\ pc' = "products"
    /\ idx' = 1
    /\ scored_lists' = <<>>
    /\ recommendations' = <<>>
    /\ selected' = <<>>
    /\ final_selected' = <<>>
    /\ UNCHANGED <<impl, rfp, repo, win_probability, winning_probability,
                   cmpVars, scoreVars, priceVars, given, rounding, graphVars, retryVars, quoteVars>>

\* TechnicalAgent.process_rfp, one product: find_top_3_recommendations and
\* store_recommendations
BackendRecommendProduct ==
    /\ impl = "backend"
    /\ pc = "products"
    /\ idx <= Len(rfp)
    /\ IF BackendScoringRaises(rfp[idx].specifications, repo)
       THEN /\ pc' = "error"
            /\ UNCHANGED <<idx, scored_lists, recommendations>>
       ELSE /\ scored_lists' =
                   Append(scored_lists, BackendScored(rfp[idx].specifications, repo))
            /\ recommendations' =
                   Append(recommendations,
                          find_top_3_recommendations(
                              BackendScored(rfp[idx].specifications, repo)))
            /\ idx' = idx + 1
            /\ pc' = pc
    /\ UNCHANGED <<impl, rfp, repo, selected, final_selected, win_probability,
                   winning_probability, cmpVars, scoreVars, priceVars, callVars, graphVars, retryVars, quoteVars>>

\* TechnicalAgent.process_rfp after the loop: select_best_products and
\* calculate_win_probability
BackendSelectBest ==
    /\ impl = "backend"
    /\ pc = "products"
    /\ idx > Len(rfp)
    /\ final_selected' = select_best_products(rfp, recommendations, repo, Len(rfp))
    /\ \E tie \in BOOLEAN :
          win_probability' =
              <<calculate_win_probability(
                    select_best_products(rfp, recommendations, repo, Len(rfp)), rfp, tie)>>
    /\ pc' = "done"
    /\ UNCHANGED <<impl, rfp, repo, idx, scored_lists, recommendations, selected,
                   winning_probability, cmpVars, scoreVars, priceVars, callVars, graphVars, retryVars, quoteVars>>

\* technical_node of the orchestrator once process_rfp has returned: the
\* selected products and calculate_winning_probability of them are recorded
TechnicalNode ==
    /\ impl = "backend"
    /\ pc = "done"
    /\ winning_probability' = <<calculate_winning_probability(final_selected)>>
    /\ pc' = "ready_for_review"
    /\ UNCHANGED <<impl, rfp, repo, idx, scored_lists, recommendations, selected,
                   final_selected, win_probability, cmpVars, scoreVars, priceVars, callVars, graphVars, retryVars, quoteVars>>

\* the legacy process_rfp, one product: find_top_3_recommendations,
\* store_recommendations and the print of recommendations[0], which raises
\* IndexError when there is no recommendation
LegacySteps(candidates) ==
    IF candidates = <<>> \/ LegacyScoringRaises(rfp[idx].specifications, candidates)
    THEN /\ pc' = "error"
         /\ UNCHANGED <<idx, scored_lists, recommendations>>
    ELSE /\ scored_lists' =
                Append(scored_lists, LegacyScored(rfp[idx].specifications, candidates))
         /\ recommendations' =
                Append(recommendations,
                       legacy_find_top_3_recommendations(
                           LegacyScored(rfp[idx].specifications, candidates)))
         /\ idx' = idx + 1
         /\ pc' = pc

LegacyRecommendProduct ==
    /\ impl = "legacy"
    /\ pc = "products"
    /\ idx <= Len(rfp)
    /\ LegacySteps(LegacyCandidates(rfp[idx].category, repo))
    /\ UNCHANGED <<impl, rfp, repo, selected, final_selected, win_probability,
                   winning_probability, cmpVars, scoreVars, priceVars, callVars, graphVars, retryVars, quoteVars>>

\* the outcome of the legacy select_best_products
LegacySelected(res) ==
    IF res.raised
    THEN pc' = "error" /\ UNCHANGED final_selected
    ELSE pc' = "done" /\ final_selected' = res.rows

\* the legacy process_rfp after the loop: select_best_products
LegacySelectBest ==
    /\ impl = "legacy"
    /\ pc = "products"
    /\ idx > Len(rfp)
    /\ LegacySelected(legacy_select_best_products(
                          LegacyRows(rfp, recommendations, repo, Len(rfp))))
    /\ UNCHANGED <<impl, rfp, repo, idx, scored_lists, recommendations, selected,
                   win_probability, winning_probability, cmpVars, scoreVars, priceVars, callVars, graphVars, retryVars, quoteVars>>

Init ==
    /\ impl \in {"runner", "backend", "legacy"}
    /\ rfp \in InjectiveSeqs(Requirements, MaxProducts)
    /\ repo \in InjectiveSeqs(CatalogEntries, MaxCatalog)
    /\ pc = "products"
    /\ idx = 1
    /\ scored_lists = <<>>
    /\ recommendations = <<>>
    /\ selected = <<>>
    /\ final_selected = <<>>
    /\ win_probability = <<>>
    /\ winning_probability = <<>>
    /\ given = [rfp |-> rfp, repo |-> repo]
    /\ calls = 1
    /\ rounding = <<>>
    /\ first_call = <<>>
    /\ IdleGraph
    /\ IdleRetry
    /\ IdleQuote
    /\ IdleCompare
    /\ IdleScore
    /\ IdlePricing

Next ==
    \/ RunnerProcessProduct
    \/ RunnerFinish
    \/ BackendRecommendProduct
    \/ BackendSelectBest
    \/ TechnicalNode
    \/ LegacyRecommendProduct
    \/ LegacySelectBest

Spec == Init /\ [][Next]_vars

----------------------------------------------------------------------------
(* Claims about the comparators, checked under SpecCompare *)

\* the normalised arguments of the call (the normaliser of the runner)
NormRfp == normalize_spec_value(rfp_val)
NormOem == normalize_spec_value(oem_val)

\* C2: when both values normalise to numbers and the requirement r is not 0,
\* either comparator reports a match if and only if |candidate - r| / |r| <= 0.10
\* (so r matches 1.05 * r and does not match 1.5 * r).
C2_NumericToleranceBothComparators ==
    (/\ called \in {"runner", "backend"}
     /\ IsNumber(NormRfp) /\ IsNumber(NormOem)
     /\ NormRfp.n # 0)
    => (match <=> 10 * Abs(NormOem.n - NormRfp.n) <= Abs(NormRfp.n))

\* C7: when both values normalise to strings, either comparator reports a match
\* if and only if the normalised strings are equal or one contains the other.
C7_StringMatchBothComparators ==
    (/\ called \in {"runner", "backend"}
     /\ NormRfp.kind = "str" /\ NormOem.kind = "str")
    => (match <=> \/ NormRfp.s = NormOem.s
                  \/ Contains(NormOem.s, NormRfp.s)
                  \/ Contains(NormRfp.s, NormOem.s))

\* C9: if the requirement value or the candidate value is None, either
\* comparator returns false, also when both are None.
C9_NoneNeverMatchesBothComparators ==
    (/\ called \in {"runner", "backend"}
     /\ (rfp_val = PyNone \/ oem_val = PyNone))
    => ~match

\* C10: if after normalisation one value is a number and the other a string,
\* compare_values of the runner returns false.
C10_MixedTypesNeverMatch ==
    (/\ called = "runner"
     /\ \/ IsNumber(NormRfp) /\ NormOem.kind = "str"
        \/ NormRfp.kind = "str" /\ IsNumber(NormOem))
    => ~match

\* the value is the number 0
IsZero(v) == IsNumber(v) /\ v.n = 0

\* C11: when the requirement value normalises to the number 0, each comparator
\* (runner, backend, legacy) reports a match if and only if the candidate
\* value normalises to 0 too, and no comparator call evaluates a division by
\* zero.
C11_ZeroMatchesOnlyZeroWithoutDivision ==
    called \in {"runner", "backend", "legacy"}
    => /\ ~zero_division
       /\ IsZero(NormRfp) => (match <=> IsZero(NormOem))

\* C14: compare_values of the runner (and normalize_spec_value within it)
\* never raises, whatever the kinds of the two values; it returns a boolean,
\* and values that normalise to strings are compared as strings.
C14_RunnerComparatorNeverRaises ==
    called = "runner"
    => /\ ~raised
       /\ match \in BOOLEAN
       /\ (NormRfp.kind = "str" /\ NormOem.kind = "str")
          => (match <=> StringsMatch(NormRfp.s, NormOem.s))

----------------------------------------------------------------------------
(* Claims about the scorers, checked under SpecScore *)

ScoreReturned == scored \in {"runner", "backend"} /\ ~score.raised

\* the number of comparison details with match = true
MatchedDetails == Cardinality({i \in 1..Len(score.details) : score.details[i].match})

\* C1: for a requirement with at least one attribute the scorer returns
\* round(matched / total * 100, 2), total the number of requirement attributes
\* and matched the number of details with match = true; so the percentage is
\* within [0, 100], 100 exactly when all matched and 0 exactly when none did.
C1_PercentageIsRoundedMatchedShare ==
    (ScoreReturned /\ rfp_specs # <<>>)
    => LET total == Len(rfp_specs)
       IN /\ Len(score.details) = total
          /\ 2 * Abs(score.pct * total - MatchedDetails * 10000) <= total
          /\ 0 <= score.pct /\ score.pct <= 10000
          /\ (score.pct = 10000 <=> MatchedDetails = total)
          /\ (score.pct = 0 <=> MatchedDetails = 0)

\* C1 witness: a scorer call on two attributes of which exactly one matched
C1_Witness ==
    /\ ScoreReturned
    /\ Len(rfp_specs) = 2
    /\ MatchedDetails = 1
    /\ score.pct = 5000

\* C8: an attribute of the requirement that the candidate's specification set
\* lacks is never counted as matched, whatever the requirement's value.
C8_AbsentAttributeNeverMatches ==
    ScoreReturned
    => \A i \in 1..Len(score.details) :
          (~IsDict(oem_specs) \/ ~HasKey(oem_specs, score.details[i].k))
          => ~score.details[i].match

\* C12: for an empty requirement specification set either scorer returns
\* (0.0, {}) whatever the candidate's specification set is (empty, non-empty
\* or no dict), without raising and without evaluating matched / total.
C12_EmptyRequirementScoresZero ==
    (scored \in {"runner", "backend"} /\ rfp_specs = <<>>)
    => /\ ~score.raised
       /\ score.pct = 0
       /\ score.details = <<>>
       /\ ~score.divided

\* C12 witness: a scorer has returned for an empty requirement set and a
\* non-empty candidate set
C12_Witness ==
    /\ scored \in {"runner", "backend"}
    /\ rfp_specs = <<>>
    /\ IsDict(oem_specs)
    /\ oem_specs # <<>>
    /\ score = NoScore

----------------------------------------------------------------------------
(* Claims about ranking and selection, checked under Spec *)

\* the RFP is processed by the runner or by the backend's TechnicalAgent
RunnerOrBackend == impl \in {"runner", "backend"}

\* the candidates a ranker scores for a requirement, as positions of the catalog
Eligible(product) ==
    IF impl \in {"runner", "legacy"}
    THEN {k \in 1..Len(repo) :
             repo[k].category = product.category \/ repo[k].category = NoCategory}
    ELSE 1..Len(repo)

\* ranked is the first min(3, n) elements of the n candidates sorted stably
\* and descending by percentage: at maps each rank to the position of its
\* candidate
StableTopThree(candidates, ranked, at) ==
    /\ \A j \in 1..Len(ranked) : ranked[j] = candidates[at[j]]
    /\ \A j, k \in 1..Len(ranked) :
          j < k => \/ ranked[j].spec_match_percentage > ranked[k].spec_match_percentage
                   \/ /\ ranked[j].spec_match_percentage = ranked[k].spec_match_percentage
                      /\ at[j] < at[k]
    /\ \A c \in 1..Len(candidates) :
          (\A j \in 1..Len(ranked) : at[j] # c)
          => \A j \in 1..Len(ranked) :
                \/ candidates[c].spec_match_percentage < ranked[j].spec_match_percentage
                \/ /\ candidates[c].spec_match_percentage = ranked[j].spec_match_percentage
                   /\ at[j] < c

RankedStably(candidates, ranked) ==
    /\ Len(ranked) = (IF Len(candidates) < 3 THEN Len(candidates) ELSE 3)
    /\ \E at \in [1..Len(ranked) -> 1..Len(candidates)] :
          StableTopThree(candidates, ranked, at)

\* the product the loop is at has a field the code does not tolerate: a null
\* quantity in the runner, a candidate without specifications in the backend
UntoleratedField ==
    \/ impl = "runner" /\ rfp[idx].quantity = PyNone
    \/ /\ impl = "backend"
       /\ rfp[idx].specifications # <<>>
       /\ \E k \in 1..Len(repo) : repo[k].specifications = NoDict

Recommended == {i \in 1..Len(recommendations) : recommendations[i] # <<>>}

\* the selection refers to the rank-1 recommendation top; a price the
\* catalog lacks counts as 0
RefersTo(selection, top) ==
    /\ selection.sku = top.sku
    /\ selection.spec_match_percentage = top.spec_match_percentage
    /\ selection.unit_price.n = top.unit_price.n

\* C4: once the RFP is processed the final selection list has exactly one
\* entry per requirement with at least one recommendation, in requirement
\* order, referring to its rank-1 recommendation; a requirement without
\* recommendations contributes nothing and raises no error.
C4_OneSelectionPerRecommendedRequirement ==
    RunnerOrBackend =>
        /\ pc = "done"
           => /\ Len(final_selected) = Cardinality(Recommended)
              /\ \A e \in 1..Len(final_selected) :
                    /\ final_selected[e].requirement \in Recommended
                    /\ RefersTo(final_selected[e],
                                recommendations[final_selected[e].requirement][1])
              /\ \A e, f \in 1..Len(final_selected) :
                    e < f => final_selected[e].requirement < final_selected[f].requirement
        /\ pc = "error" => Eligible(rfp[idx]) # {}

\* C4 witness: an RFP of two requirements, one with and one without
\* recommendations, processed
C4_Witness ==
    /\ RunnerOrBackend
    /\ pc = "done"
    /\ Len(rfp) = 2
    /\ Len(final_selected) = 1
    /\ Cardinality(Recommended) = 1

\* the quantity is a positive number
IsPositive(quantity) == quantity.kind \in {"int", "float"} /\ quantity.n > 0

\* total_price is unit_price * q, q the quantity if positive and else default
PricedAt(selection, quantity, default) ==
    selection.total_price
        = Times(selection.unit_price.n,
                IF IsPositive(quantity) THEN quantity.n ELSE default * Scale)

\* C5: every selection's total_price is unit_price * q, q being the
\* requirement's quantity when positive and one fixed non-zero default when
\* the quantity is missing, null or zero; so a positive unit price never
\* gives total_price 0.
C5_TotalPriceUsesNonZeroQuantity ==
    RunnerOrBackend =>
        /\ \E default \in 1..1000 :
              \A e \in 1..Len(final_selected) :
                 PricedAt(final_selected[e], rfp[final_selected[e].requirement].quantity,
                          default)
        /\ \A e \in 1..Len(final_selected) :
              final_selected[e].unit_price.n > 0 => final_selected[e].total_price # 0

\* the percentage of the candidate with the given sku among the scored ones
PercentageOf(entries, sku) ==
    {entries[k].spec_match_percentage : k \in {j \in 1..Len(entries) : entries[j].sku = sku}}

\* C6: the requirement {size "95sqmm", voltage "1.1kV"}, quantity 1000,
\* against A {size "95", voltage "1.1kV", price 100} and B {size "50",
\* voltage "11kV", price 80}: A scores 100%, B scores 0%, A is selected and
\* the selection's total_price is 100000.
C6_EndToEndExample ==
    (pc = "done" /\ rfp = <<ExampleRequirement>> /\ repo = <<EntryA, EntryB>>)
    => /\ PercentageOf(scored_lists[1], "A") = {10000}
       /\ PercentageOf(scored_lists[1], "B") = {0}
       /\ recommendations[1][1].sku = "A"
       /\ Len(final_selected) = 1
       /\ final_selected[1].sku = "A"
       /\ final_selected[1].total_price = 100000 * Scale

\* the entry's category equals the requirement's category or is null
CategoryEligible(product, entry) ==
    entry.category = product.category \/ entry.category = NoCategory

\* C13: every recommendation of a requirement comes from a catalog entry
\* whose category is the requirement's or null, and every such entry is
\* scored; an entry of another category is never recommended.
C13_RecommendationsWithinCategory ==
    RunnerOrBackend =>
        \A i \in 1..Len(recommendations) :
           /\ \A j \in 1..Len(recommendations[i]) :
                 CategoryEligible(rfp[i],
                     OemProductById(repo, recommendations[i][j].oem_product_id))
           /\ \A k \in 1..Len(repo) :
                 CategoryEligible(rfp[i], repo[k])
                 => \E j \in 1..Len(scored_lists[i]) :
                       scored_lists[i][j].oem_product_id = repo[k].oem_product_id

\* the requirement has a selection in the final list
HasSelection(i) ==
    \E e \in 1..Len(final_selected) : final_selected[e].requirement = i

\* the selection's price is 0 when its catalog entry has no unit_price
MissingPriceIsZero(selection, entry) ==
    entry.unit_price = Missing
    => selection.unit_price.n = 0 /\ selection.total_price = 0

\* C15: ranking and selection never raise and give every requirement with a
\* candidate a selection, also when the requirement has no category, a
\* missing or null quantity or no specifications, and when a catalog entry
\* has no unit_price (then 0) or no specifications (then an empty map).
C15_ToleratesMissingFields ==
    RunnerOrBackend =>
        /\ pc # "error"
        /\ pc = "done"
           => /\ \A i \in 1..Len(rfp) : Eligible(rfp[i]) # {} => HasSelection(i)
              /\ \A e \in 1..Len(final_selected), k \in 1..Len(repo) :
                    repo[k].sku = final_selected[e].sku
                    => MissingPriceIsZero(final_selected[e], repo[k])

\* C16: with an empty catalog or an RFP without requirements the backend
\* and the legacy agent process the RFP without raising, the selection list
\* is empty and every win probability recorded for the RFP is 0.
C16_EmptyInputsGiveZeroProbability ==
    (impl \in {"backend", "legacy"} /\ (repo = <<>> \/ rfp = <<>>))
    => /\ pc # "error"
       /\ final_selected = <<>>
       /\ win_probability \in {<<>>, <<0>>}
       /\ winning_probability # <<>>
          => ~winning_probability[1].logistic /\ winning_probability[1].hundredths = 0

----------------------------------------------------------------------------
(* Calls of the win-probability estimator *)

\* the longest selection list and the longest requirement list of a call
MaxSelections == 3
MaxRequirements == 3

\* the spec_match_percentage values of the selections, in hundredths of a percent
WinPercentages == {0, 3010, 6999, 7000, 9030, 10000}

\* the selected_products lists of a call
WinSelections ==
    UNION {[1..m -> [spec_match_percentage : WinPercentages]] : m \in 0..MaxSelections}

\* the rfp_products lists of a call
WinRequirements == {[i \in 1..n |-> BareRequirement] : n \in 0..MaxRequirements}

\* a call of TechnicalAgent.calculate_win_probability(final_selected, rfp)
CallWinProbability ==
    /\ impl = "estimator"
    /\ pc = "estimate"
    /\ \E tie \in BOOLEAN :
          win_probability' = <<calculate_win_probability(final_selected, rfp, tie)>>
    /\ pc' = "estimated"
    /\ UNCHANGED <<impl, rfp, repo, idx, scored_lists, recommendations, selected,
                   final_selected, winning_probability, cmpVars, scoreVars, priceVars, callVars, graphVars, retryVars, quoteVars>>

InitWin ==
    /\ impl = "estimator"
    /\ rfp \in WinRequirements
    /\ repo = <<>>
    /\ pc = "estimate"
    /\ idx = 0
    /\ scored_lists = <<>>
    /\ recommendations = <<>>
    /\ selected = <<>>
    /\ final_selected \in WinSelections
    /\ win_probability = <<>>
    /\ winning_probability = <<>>
    /\ IdleCompare
    /\ IdleScore
    /\ IdlePricing
    /\ IdleCalls
    /\ IdleGraph
    /\ IdleRetry
    /\ IdleQuote

NextWin == CallWinProbability

SpecWin == InitWin /\ [][NextWin]_vars

\* the sum of the match percentages of the selections at positions 1..n
SumOfMatches(selections, n) ==
    LET sum[i \in 0..n] ==
            IF i = 0 THEN 0 ELSE sum[i - 1] + selections[i].spec_match_percentage
    IN sum[n]

\* the number of selections with a match percentage below 70
BelowSeventy(selections) ==
    Cardinality({i \in DOMAIN selections : selections[i].spec_match_percentage < 7000})

\* 40 * s / r + 50 * average / 100 + max(0, 10 - 5 * low), times 200 * s * r,
\* for s selections of match percentages summing to total (hundredths)
ClaimedNumerator(s, r, total, low) ==
    8000 * s * s + total * r + 200 * s * r * (IF 5 * low < 10 THEN 10 - 5 * low ELSE 0)

\* num / den clamped to [0, 100], times den
ClampedNumerator(num, den) ==
    IF num > 100 * den THEN 100 * den ELSE IF num < 0 THEN 0 ELSE num

\* est tenths is num / den rounded to one decimal
IsRoundedToTenths(est, num, den) ==
    /\ 2 * (est * den - 10 * num) <= den
    /\ 2 * (10 * num - est * den) <= den

\* C17: calculate_win_probability returns 0 when the requirement list or the
\* selection list is empty, and else 40 * |selections| / |requirements| +
\* 50 * average / 100 + max(0, 10 - 5 * low) clamped to [0, 100] and rounded to
\* one decimal; the result is within [0, 100].
C17_WinProbabilityFormula ==
    (impl = "estimator" /\ pc = "estimated")
    => /\ win_probability[1] \in 0..1000
       /\ IF rfp = <<>> \/ final_selected = <<>>
          THEN win_probability[1] = 0
          ELSE IsRoundedToTenths(
                   win_probability[1],
                   ClampedNumerator(
                       ClaimedNumerator(Len(final_selected), Len(rfp),
                                        SumOfMatches(final_selected, Len(final_selected)),
                                        BelowSeventy(final_selected)),
                       200 * Len(final_selected) * Len(rfp)),
                   200 * Len(final_selected) * Len(rfp))

\* a call with fewer selections than requirements, one of them a low match,
\* whose estimate is rounded
C17_Witness ==
    /\ impl = "estimator"
    /\ pc = "estimated"
    /\ Len(final_selected) = 2
    /\ Len(rfp) = 3
    /\ BelowSeventy(final_selected) = 1
    /\ win_probability[1] \in 1..999
    /\ (10 * ClaimedNumerator(2, 3, SumOfMatches(final_selected, 2), 1)) % 1200 # 0

\* the selections cover a smaller fraction of requirements r1 than others do of r2
LessCoverage(selections, r1, others, r2) ==
    Len(selections) * r2 < Len(others) * r1

SameCoverage(selections, r1, others, r2) ==
    Len(selections) * r2 = Len(others) * r1

\* the average match percentage of the selections is below that of others
LowerAverage(selections, others) ==
    SumOfMatches(selections, Len(selections)) * Len(others)
        < SumOfMatches(others, Len(others)) * Len(selections)

SameAverage(selections, others) ==
    SumOfMatches(selections, Len(selections)) * Len(others)
        = SumOfMatches(others, Len(others)) * Len(selections)

\* the estimate est of (selections, requirements) against the estimate est2 of
\* (others, requirements2): more coverage alone or a higher average alone
\* gives no lower estimate
NeverDecreases(selections, requirements, est, others, requirements2, est2) ==
    /\ (/\ LessCoverage(selections, Len(requirements), others, Len(requirements2))
        /\ SameAverage(selections, others)
        /\ BelowSeventy(selections) = BelowSeventy(others))
       => est <= est2
    /\ (/\ SameCoverage(selections, Len(requirements), others, Len(requirements2))
        /\ LowerAverage(selections, others)
        /\ BelowSeventy(selections) = BelowSeventy(others))
       => est <= est2

\* one more selection below 70 alone gives no higher estimate
NeverIncreases(selections, requirements, est, others, requirements2, est2) ==
    (/\ SameCoverage(selections, Len(requirements), others, Len(requirements2))
     /\ SameAverage(selections, others)
     /\ BelowSeventy(others) = BelowSeventy(selections) + 1)
    => est2 <= est

\* C18: the estimate is monotonic: with more coverage, or with a higher
\* average match percentage, and the other inputs equal it is never lower, and
\* with one more selection below 70 and everything else equal it is never
\* higher.
C18_EstimateIsMonotonic ==
    (impl = "estimator" /\ pc = "estimated" /\ rfp # <<>> /\ final_selected # <<>>)
    => \A others \in WinSelections \ {<<>>} :
          \A requirements2 \in WinRequirements \ {<<>>} :
             \A tie \in BOOLEAN :
                /\ NeverDecreases(final_selected, rfp, win_probability[1],
                                  others, requirements2,
                                  calculate_win_probability(others, requirements2, tie))
                /\ NeverIncreases(final_selected, rfp, win_probability[1],
                                  others, requirements2,
                                  calculate_win_probability(others, requirements2, tie))

----------------------------------------------------------------------------
(* The pricing agent.  Amounts of money are integers in thousandths of a    *)
(* rupee; a table is a sequence of [k, v] in the order of the dict; the     *)
(* keys of the test table and the test requirements are sequences of        *)
(* characters.                                                              *)

MillsPerRupee == 1000
MillsPerCent == 10

Rupees(x) == x * MillsPerRupee

\* the price of a product whose SKU is not in the table
DefaultUnitPrice == Rupees(1000)

\* the price of a test that matches no key of the table
DefaultTestPrice == Rupees(10000)

\* round(num / den, 2) of an amount num / den; an amount halfway between two
\* hundredths goes up or down with its floating-point representation
RoundCents(num, den, tie) ==
    IF 2 * (num % (den * MillsPerCent)) < den * MillsPerCent
    THEN MillsPerCent * (num \div (den * MillsPerCent))
    ELSE IF 2 * (num % (den * MillsPerCent)) > den * MillsPerCent
    THEN MillsPerCent * ((num \div (den * MillsPerCent)) + 1)
    ELSE IF tie THEN MillsPerCent * ((num \div (den * MillsPerCent)) + 1)
    ELSE MillsPerCent * (num \div (den * MillsPerCent))

\* the position of key in the table (0: not a key)
KeyIndex(table, key) ==
    IF HasKey(table, key) THEN CHOOSE i \in 1..Len(table) : table[i].k = key ELSE 0

\* unit_price * quantity raises TypeError for the quantity None
MaterialRaises(item) == item.quantity.kind = "none"

\* the cost entry of _calculate_material_costs for one item whose unit price
\* is unit_price and whose product name is product_name
CostEntry(item, unit_price, product_name, quantity, price_tie, total_tie) ==
    [rfp_product |-> item.rfp_product,
     sku |-> item.sku,
     product_name |-> product_name,
     quantity |-> quantity,
     unit |-> item.unit,
     unit_price_inr |-> RoundCents(unit_price, 1, price_tie),
     total_price_inr |-> RoundCents(unit_price * (quantity.n \div Scale), 1, total_tie)]

\* one pass of the loop of _calculate_material_costs: the price of the table
\* or the default price, and item.get('quantity', 0)
MaterialEntry(item, prices, at, price_tie, total_tie) ==
    IF at > 0
    THEN CostEntry(item, prices[at].v.unit_price, prices[at].v.product_name,
                   GetOr(item.quantity, PyInt(0)), price_tie, total_tie)
    ELSE CostEntry(item, DefaultUnitPrice, item.sku,
                   GetOr(item.quantity, PyInt(0)), price_tie, total_tie)

\* PricingAgent._calculate_material_costs(products)
calculate_material_costs(products, prices, price_ties, total_ties) ==
    [i \in 1..Len(products) |->
        MaterialEntry(products[i], prices, KeyIndex(prices, products[i].sku),
                      price_ties[i], total_ties[i])]

\* the loop over the keys from position i: the first key that contains
\* test_name or is contained in it (0: none)
RECURSIVE PartialMatch(_, _, _)
PartialMatch(test_name, table, i) ==
    IF i > Len(table) THEN 0
    ELSE IF Contains(table[i].k, test_name) \/ Contains(test_name, table[i].k) THEN i
    ELSE PartialMatch(test_name, table, i + 1)

\* the lookup with the partial matching only
MatchedKey_PartialOnly(test_name, table) == PartialMatch(test_name, table, 1)

\* the position of matched_test in the table: the exact key, else the first
\* partial match (0: no match)
MatchedKey(test_name, table) ==
    IF HasKey(table, test_name) THEN KeyIndex(table, test_name)
    ELSE PartialMatch(test_name, table, 1)

\* the testing cost entry of one requirement
TestEntry(test_req, matched_name, matched_price, num_products, price_tie, total_tie) ==
    [test_requirement |-> test_req,
     test_name |-> matched_name,
     price_per_test_inr |-> RoundCents(matched_price, 1, price_tie),
     quantity |-> num_products,
     total_test_cost_inr |-> RoundCents(matched_price * num_products, 1, total_tie)]

\* one pass of the loop of _calculate_testing_costs
TestingEntry(test_req, table, at, num_products, price_tie, total_tie) ==
    IF at > 0
    THEN TestEntry(test_req, table[at].v.test_name, table[at].v.test_price,
                   num_products, price_tie, total_tie)
    ELSE TestEntry(test_req, Lower(Strip(test_req)), DefaultTestPrice,
                   num_products, price_tie, total_tie)

\* PricingAgent._calculate_testing_costs(test_requirements, num_products)
calculate_testing_costs(requirements, table, num_products, price_ties, total_ties) ==
    [i \in 1..Len(requirements) |->
        TestingEntry(requirements[i], table,
                     MatchedKey(Lower(Strip(requirements[i])), table),
                     num_products, price_ties[i], total_ties[i])]

\* sum(item['total_price_inr'] for item in material_costs)
TotalMaterialCost(materials) ==
    LET sum[i \in 0..Len(materials)] ==
            IF i = 0 THEN 0 ELSE sum[i - 1] + materials[i].total_price_inr
    IN sum[Len(materials)]

\* sum(item['total_test_cost_inr'] for item in testing_costs)
TotalTestingCost(testings) ==
    LET sum[i \in 0..Len(testings)] ==
            IF i = 0 THEN 0 ELSE sum[i - 1] + testings[i].total_test_cost_inr
    IN sum[Len(testings)]

\* the summary for the totals: grand_total = material + testing,
\* contingency = grand_total * 0.10, final_total = grand_total + contingency
Summary(total_material_cost, total_testing_cost, contingency_tie, final_tie) ==
    [total_material_cost_inr |-> RoundCents(total_material_cost, 1, FALSE),
     total_testing_cost_inr |-> RoundCents(total_testing_cost, 1, FALSE),
     subtotal_inr |-> RoundCents(total_material_cost + total_testing_cost, 1, FALSE),
     contingency_10pct_inr |->
         RoundCents(total_material_cost + total_testing_cost, 10, contingency_tie),
     grand_total_inr |->
         RoundCents(11 * (total_material_cost + total_testing_cost), 10, final_tie)]

\* PricingAgent._consolidate_pricing(material_costs, testing_costs)
consolidate_pricing(materials, testings, contingency_tie, final_tie) ==
    Summary(TotalMaterialCost(materials), TotalTestingCost(testings),
            contingency_tie, final_tie)

----------------------------------------------------------------------------
(* Inputs of the pricing agent *)

\* the longest list of recommended products
MaxItems == 2

\* rows of _create_synthetic_product_pricing
SyntheticProductPrices ==
    << [k |-> "MV-AL-XLPE-11KV-3CX240",
        v |-> [product_name |-> "11kV XLPE 3C x 240 sqmm Al", unit_price |-> Rupees(2350)]],
       [k |-> "CTRL-CU-PVC-1.1KV-4CX2.5",
        v |-> [product_name |-> "Control 1.1kV 4C x 2.5 sqmm", unit_price |-> Rupees(180)]] >>

\* a product price table loaded from a CSV file, with prices in paise
CsvProductPrices ==
    << [k |-> "MV-AL-XLPE-11KV-3CX240",
        v |-> [product_name |-> "11kV XLPE 3C x 240 sqmm Al",
               unit_price |-> Rupees(2350) + 75 * MillsPerCent]],
       [k |-> "CTRL-CU-PVC-1.1KV-4CX2.5",
        v |-> [product_name |-> "Control 1.1kV 4C x 2.5 sqmm",
               unit_price |-> Rupees(180) + 25 * MillsPerCent]] >>

RoutineTest == <<"r", "o", "u", "t", "i", "n", "e", "_", "t", "e", "s", "t">>
RoutineTestMv == <<"r", "o", "u", "t", "i", "n", "e", "_", "t", "e", "s", "t", "_", "m", "v">>
AcceptanceTest == <<"a", "c", "c", "e", "p", "t", "a", "n", "c", "e", "_", "t", "e", "s", "t">>

\* rows of _create_synthetic_test_pricing, in the order of the dict
SyntheticTestPrices ==
    << [k |-> RoutineTest,
        v |-> [test_name |-> "Routine Test (Factory)", test_price |-> Rupees(5000)]],
       [k |-> AcceptanceTest,
        v |-> [test_name |-> "Acceptance Test (Site)", test_price |-> Rupees(12000)]],
       [k |-> RoutineTestMv,
        v |-> [test_name |-> "Routine Test - MV Cable", test_price |-> Rupees(8000)]] >>

\* test price tables loaded from a CSV file: another order of the rows, a
\* key that is not lowercase with a price in tenths of a paisa, no row
CsvTestPrices ==
    { << [k |-> RoutineTestMv,
          v |-> [test_name |-> "Routine Test - MV Cable", test_price |-> Rupees(8000)]],
         [k |-> RoutineTest,
          v |-> [test_name |-> "Routine Test (Factory)", test_price |-> Rupees(5000)]] >>,
      << [k |-> <<"R", "o", "u", "t", "i", "n", "e", "_", "T", "e", "s", "t">>,
          v |-> [test_name |-> "Routine Test", test_price |-> Rupees(4000) + 125]] >>,
      << >> }

TestTables == {SyntheticTestPrices} \cup CsvTestPrices

\* the items of product_recommendations: a priced SKU, an unknown SKU, an
\* item without quantity and one whose quantity is null
PricingItems ==
    { [rfp_product |-> "11kV XLPE 3C x 240 sqmm Al Cable", sku |-> "MV-AL-XLPE-11KV-3CX240",
       quantity |-> PyInt(1), unit |-> "meter"],
      [rfp_product |-> "Control Cable 4C x 2.5 sqmm", sku |-> "CTRL-CU-PVC-1.1KV-4CX2.5",
       quantity |-> PyInt(3), unit |-> "meter"],
      [rfp_product |-> "Unknown", sku |-> "HV-XX", quantity |-> PyInt(2), unit |-> "meter"],
      [rfp_product |-> "Unknown", sku |-> "", quantity |-> Missing, unit |-> "meter"],
      [rfp_product |-> "Unknown", sku |-> "", quantity |-> PyNone, unit |-> "meter"] }

\* the lists of test requirements
TestRequirementLists ==
    { << >>,
      << RoutineTestMv >>,
      << <<" ", "R", "o", "u", "t", "i", "n", "e", "_", "T", "e", "s", "t", "_", "M", "V", " ">> >>,
      << <<"r", "o", "u", "t", "i", "n", "e">> >>,
      << <<"r", "o", "u", "t", "i", "n", "e", "_", "t", "e", "s", "t", "_", "m", "v", "_", "s", "i", "t", "e">> >>,
      << <<"t", "h", "e", "r", "m", "a", "l", "_", "c", "y", "c", "l", "i", "n", "g">> >>,
      << <<" ">> >>,
      << RoutineTestMv, AcceptanceTest >>,
      << <<"t", "h", "e", "r", "m", "a", "l", "_", "c", "y", "c", "l", "i", "n", "g">>, <<"r", "o", "u", "t", "i", "n", "e">> >> }

----------------------------------------------------------------------------
(* process_rfp_pricing *)

\* no halfway value rounded up
NoTies(ties) == [i \in DOMAIN ties |-> FALSE]

\* floating point is deterministic: the second call rounds the values of the
\* same list as the first call did
SameRounding(ties, before) ==
    (calls = 2 /\ DOMAIN before = DOMAIN ties) => ties = before

\* the entries whose halfway amount was rounded up: those that differ from
\* the entries computed without rounding up
RoundedUp(ties, entries, entries_down) ==
    [i \in DOMAIN ties |-> ties[i] /\ entries[i] # entries_down[i]]

\* the halfway values among the material costs that were rounded up
MaterialRounding(products, prices, price_ties, total_ties, costs) ==
    << RoundedUp(price_ties, costs,
                 calculate_material_costs(products, prices, NoTies(price_ties), total_ties)),
       RoundedUp(total_ties, costs,
                 calculate_material_costs(products, prices, price_ties, NoTies(total_ties))) >>

\* the halfway values among the testing costs that were rounded up
TestingRounding(requirements, prices, num_products, price_ties, total_ties, costs) ==
    << RoundedUp(price_ties, costs,
                 calculate_testing_costs(requirements, prices, num_products,
                                         NoTies(price_ties), total_ties)),
       RoundedUp(total_ties, costs,
                 calculate_testing_costs(requirements, prices, num_products,
                                         price_ties, NoTies(total_ties))) >>

\* the halfway values of the summary that were rounded up
SummaryRounding(materials, testings, contingency_tie, final_tie) ==
    LET totals(c, f) == consolidate_pricing(materials, testings, c, f)
    IN << contingency_tie /\ totals(TRUE, final_tie) # totals(FALSE, final_tie),
          final_tie /\ totals(contingency_tie, TRUE) # totals(contingency_tie, FALSE) >>

\* the rounding of a step of the first call is kept for the second
Rounded(step, ties) == IF calls = 1 THEN [rounding EXCEPT ![step] = ties] ELSE rounding

\* process_rfp_pricing: _calculate_material_costs
CalculateMaterialCosts ==
    /\ pricing_pc = "material"
    /\ IF \E i \in 1..Len(product_recommendations) :
             MaterialRaises(product_recommendations[i])
       THEN /\ pricing_pc' = "error"
            /\ UNCHANGED <<material_costs, rounding>>
       ELSE /\ \E price_ties, total_ties \in
                     [1..Len(product_recommendations) -> BOOLEAN] :
                  /\ SameRounding(price_ties, rounding.material[1])
                  /\ SameRounding(total_ties, rounding.material[2])
                  /\ material_costs' =
                         calculate_material_costs(product_recommendations, product_prices,
                                                  price_ties, total_ties)
                  /\ rounding' =
                         Rounded("material",
                                 MaterialRounding(product_recommendations, product_prices,
                                                  price_ties, total_ties,
                                                  material_costs'))
            /\ pricing_pc' = "testing"
    /\ UNCHANGED <<product_prices, test_prices, product_recommendations,
                   test_requirements, testing_costs, summary,
                   cmpVars, scoreVars, rfpVars, given, calls, first_call, graphVars, retryVars, quoteVars>>

\* _calculate_testing_costs, had it taken the prices it used out of the table
CalculateTestingCosts_ConsumesPrices ==
    /\ pricing_pc = "testing"
    /\ \E price_ties, total_ties \in [1..Len(test_requirements) -> BOOLEAN] :
          /\ SameRounding(price_ties, rounding.testing[1])
          /\ SameRounding(total_ties, rounding.testing[2])
          /\ testing_costs' =
                 calculate_testing_costs(test_requirements, test_prices,
                                         Len(product_recommendations),
                                         price_ties, total_ties)
          /\ rounding' =
                 Rounded("testing",
                         TestingRounding(test_requirements, test_prices,
                                         Len(product_recommendations),
                                         price_ties, total_ties, testing_costs'))
    /\ test_prices' =
           SelectSeq(test_prices,
                     LAMBDA e : \A i \in 1..Len(test_requirements) :
                                   MatchedKey(Lower(Strip(test_requirements[i])),
                                              test_prices) # KeyIndex(test_prices, e.k))
    /\ pricing_pc' = "consolidate"
    /\ UNCHANGED <<product_prices, product_recommendations,
                   test_requirements, material_costs, summary,
                   cmpVars, scoreVars, rfpVars, given, calls, first_call, graphVars, retryVars, quoteVars>>

\* process_rfp_pricing: _calculate_testing_costs
CalculateTestingCosts ==
    /\ pricing_pc = "testing"
    /\ \E price_ties, total_ties \in [1..Len(test_requirements) -> BOOLEAN] :
          /\ SameRounding(price_ties, rounding.testing[1])
          /\ SameRounding(total_ties, rounding.testing[2])
          /\ testing_costs' =
                 calculate_testing_costs(test_requirements, test_prices,
                                         Len(product_recommendations),
                                         price_ties, total_ties)
          /\ rounding' =
                 Rounded("testing",
                         TestingRounding(test_requirements, test_prices,
                                         Len(product_recommendations),
                                         price_ties, total_ties, testing_costs'))
    /\ pricing_pc' = "consolidate"
    /\ UNCHANGED <<product_prices, test_prices, product_recommendations,
                   test_requirements, material_costs, summary,
                   cmpVars, scoreVars, rfpVars, given, calls, first_call, graphVars, retryVars, quoteVars>>

\* process_rfp_pricing: _consolidate_pricing, and the return
ConsolidatePricing ==
    /\ pricing_pc = "consolidate"
    /\ \E contingency_tie, final_tie \in BOOLEAN :
          /\ calls = 2 => <<contingency_tie, final_tie>> = rounding.summary
          /\ summary' = <<consolidate_pricing(material_costs, testing_costs,
                                              contingency_tie, final_tie)>>
          /\ rounding' =
                 Rounded("summary",
                         SummaryRounding(material_costs, testing_costs,
                                         contingency_tie, final_tie))
    /\ pricing_pc' = "returned"
    /\ UNCHANGED <<product_prices, test_prices, product_recommendations,
                   test_requirements, material_costs, testing_costs,
                   cmpVars, scoreVars, rfpVars, given, calls, first_call, graphVars, retryVars, quoteVars>>

\* a second call of process_rfp_pricing on the same agent with the same
\* arguments, after the first has returned
PricingCallAgain ==
    /\ pricing_pc = "returned"
    /\ calls = 1
    /\ first_call' = <<[material_costs |-> material_costs,
                        testing_costs |-> testing_costs,
                        summary |-> summary[1]]>>
    /\ calls' = 2
    /\ pricing_pc' = "material"
    /\ material_costs' = <<>>
    /\ testing_costs' = <<>>
    /\ summary' = <<>>
    /\ UNCHANGED <<product_prices, test_prices, product_recommendations,
                   test_requirements, cmpVars, scoreVars, rfpVars, given, rounding, graphVars, retryVars, quoteVars>>

InitPricing ==
    /\ product_prices \in {SyntheticProductPrices, CsvProductPrices}
    /\ test_prices \in TestTables
    /\ product_recommendations \in UNION {[1..m -> PricingItems] : m \in 0..MaxItems}
    /\ test_requirements \in TestRequirementLists
    /\ pricing_pc = "material"
    /\ material_costs = <<>>
    /\ testing_costs = <<>>
    /\ summary = <<>>
    /\ given = [product_prices |-> product_prices, test_prices |-> test_prices]
    /\ calls = 1
    /\ rounding = [material |-> <<>>, testing |-> <<>>, summary |-> <<>>]
    /\ first_call = <<>>
    /\ IdleGraph
    /\ IdleRetry
    /\ IdleQuote
    /\ IdleCompare
    /\ IdleScore
    /\ IdleRfp

NextPricing ==
    \/ CalculateMaterialCosts
    \/ CalculateTestingCosts
    \/ ConsolidatePricing

SpecPricing == InitPricing /\ [][NextPricing]_vars

----------------------------------------------------------------------------
(* Two calls with the same arguments *)

InitTwice ==
    \/ Init /\ impl = "runner"
    \/ InitPricing

NextTwice ==
    \/ RunnerProcessProduct
    \/ RunnerFinish
    \/ RunnerCallAgain
    \/ CalculateMaterialCosts
    \/ CalculateTestingCosts
    \/ ConsolidatePricing
    \/ PricingCallAgain

SpecTwice == InitTwice /\ [][NextTwice]_vars

----------------------------------------------------------------------------
(* Claims about the pricing agent, checked under SpecPricing *)

\* the sum of the field of the entries
SumOver(entries, field) ==
    LET sum[i \in 0..Len(entries)] ==
            IF i = 0 THEN 0 ELSE sum[i - 1] + entries[i][field]
    IN sum[Len(entries)]

\* amount, in whole hundredths, is num / den rounded to 2 decimals
IsRoundedToCents(amount, num, den) ==
    /\ amount % MillsPerCent = 0
    /\ 2 * (den * amount - num) <= den * MillsPerCent
    /\ 2 * (num - den * amount) <= den * MillsPerCent

\* the totals of the summary are the sums of the entries, and the subtotal is
\* the sum of the two totals
TotalsAreSums(s, materials, testings) ==
    /\ s.total_material_cost_inr = SumOver(materials, "total_price_inr")
    /\ s.total_testing_cost_inr = SumOver(testings, "total_test_cost_inr")
    /\ s.subtotal_inr = s.total_material_cost_inr + s.total_testing_cost_inr

\* the contingency is 10% of the subtotal and the grand total is the
\* subtotal times 1.10, both rounded to 2 decimals
MarkupIsTenPercent(s) ==
    /\ IsRoundedToCents(s.contingency_10pct_inr, s.subtotal_inr, 10)
    /\ IsRoundedToCents(s.grand_total_inr, 11 * s.subtotal_inr, 10)

\* C19: in every pricing summary the material total and the testing total are
\* the sums of their entries, the subtotal is the sum of the two, the
\* contingency is 10% of the subtotal, and the grand total is the subtotal
\* times 1.10 and equals subtotal_inr + contingency_10pct_inr, each value
\* rounded to 2 decimals.
C19_SummaryAddsUp ==
    pricing_pc = "returned"
    => /\ TotalsAreSums(summary[1], material_costs, testing_costs)
       /\ MarkupIsTenPercent(summary[1])
       /\ summary[1].grand_total_inr
              = summary[1].subtotal_inr + summary[1].contingency_10pct_inr

\* the positions of the keys equal to the name, and of those that contain it
\* or are contained in it
ExactKeys(name, table) == {i \in 1..Len(table) : table[i].k = name}

PartialKeys(name, table) ==
    {i \in 1..Len(table) : Contains(table[i].k, name) \/ Contains(name, table[i].k)}

FirstOf(positions) == CHOOSE i \in positions : \A j \in positions : i <= j

\* the price for a trimmed and lowercased requirement: of the equal key, else
\* of the first key in table order that contains it or is contained in it,
\* else 10000.00
PriceUsed(name, table) ==
    IF ExactKeys(name, table) # {} THEN table[FirstOf(ExactKeys(name, table))].v.test_price
    ELSE IF PartialKeys(name, table) # {}
    THEN table[FirstOf(PartialKeys(name, table))].v.test_price
    ELSE 10000 * MillsPerRupee

\* the entry has the price, and the price times num_products as its total
EntryHasPrice(entry, price, num_products) ==
    /\ IsRoundedToCents(entry.price_per_test_inr, price, 1)
    /\ IsRoundedToCents(entry.total_test_cost_inr, price * num_products, 1)
    /\ entry.quantity = num_products

\* "routine_test_mv" with the exact key priced 8000.0 and 2 products gives
\* price_per_test 8000.0 and total_test_cost 16000.0
RoutineTestMvExample(requirement, table, num_products, entry) ==
    (/\ requirement = RoutineTestMv
     /\ \E i \in 1..Len(table) :
           table[i].k = RoutineTestMv /\ table[i].v.test_price = 8000 * MillsPerRupee
     /\ num_products = 2)
    => /\ entry.price_per_test_inr = 8000 * MillsPerRupee
       /\ entry.total_test_cost_inr = 16000 * MillsPerRupee

\* C20: for each test requirement, trimmed and lowercased, the price used is
\* the price of the table key equal to it when there is one, even if an
\* earlier key is a substring of it, else the price of the first key in table
\* order that contains the requirement or is contained in it, else 10000.00;
\* the entry's total is that price times num_products, as in the example of
\* "routine_test_mv".
C20_TestPriceLookup ==
    pricing_pc \in {"consolidate", "returned"}
    => /\ Len(testing_costs) = Len(test_requirements)
       /\ \A i \in 1..Len(test_requirements) :
             /\ EntryHasPrice(testing_costs[i],
                              PriceUsed(Lower(Strip(test_requirements[i])), test_prices),
                              Len(product_recommendations))
             /\ RoutineTestMvExample(test_requirements[i], test_prices,
                                     Len(product_recommendations), testing_costs[i])

\* the example: "routine_test_mv" priced by its own key, which comes after
\* the key "routine_test" it contains, for 2 products
C20_Witness ==
    /\ pricing_pc = "returned"
    /\ test_prices = SyntheticTestPrices
    /\ Len(product_recommendations) = 2
    /\ test_requirements # <<>>
    /\ test_requirements[1] = RoutineTestMv
    /\ testing_costs[1].price_per_test_inr = 8000 * MillsPerRupee
    /\ testing_costs[1].total_test_cost_inr = 16000 * MillsPerRupee

\* the material entries are one per input product, in input order, an
\* unknown SKU priced at the default 1000.00
OneEntryPerProduct(products, prices, materials) ==
    /\ Len(materials) = Len(products)
    /\ \A i \in 1..Len(products) :
          /\ materials[i].sku = products[i].sku
          /\ materials[i].rfp_product = products[i].rfp_product
          /\ ~HasKey(prices, products[i].sku)
             => materials[i].unit_price_inr = 1000 * MillsPerRupee

\* the testing entries are one per test requirement, in input order, each
\* with the number of input products as its quantity
OneEntryPerTest(requirements, testings, num_products) ==
    /\ Len(testings) = Len(requirements)
    /\ \A i \in 1..Len(requirements) :
          /\ testings[i].test_requirement = requirements[i]
          /\ testings[i].quantity = num_products

\* C21: process_rfp_pricing never fails on a product whose SKU is not in the
\* price table or whose quantity is missing or null; it returns one material
\* cost entry per input product in input order, an unknown SKU priced at
\* 1000.00, and one testing cost entry per test requirement in input order,
\* whose quantity is the number of input products.
C21_PricingToleratesUnknownSkuAndQuantity ==
    /\ pricing_pc # "error"
    /\ pricing_pc = "returned"
       => /\ OneEntryPerProduct(product_recommendations, product_prices, material_costs)
          /\ OneEntryPerTest(test_requirements, testing_costs,
                             Len(product_recommendations))

----------------------------------------------------------------------------
(* Claims about two calls with the same arguments, checked under SpecTwice *)

\* the second call of process_single_rfp has returned what the first did
SameSelections ==
    /\ recommendations = first_call[1].recommendations
    /\ selected = first_call[1].selected
    /\ final_selected = first_call[1].final_selected

\* the second call of process_rfp_pricing has returned what the first did
SamePricing ==
    /\ material_costs = first_call[1].material_costs
    /\ testing_costs = first_call[1].testing_costs
    /\ summary[1] = first_call[1].summary

\* the price tables of the agent are those it was constructed with
TablesUnchanged ==
    /\ product_prices = given.product_prices
    /\ test_prices = given.test_prices

\* C22: a second call of process_single_rfp, and of process_rfp_pricing on the
\* same agent, with identical requirements, catalog and price tables returns
\* the selections, line totals, material_costs, testing_costs and summary
\* totals of the first call, and the first call leaves the price tables
\* unchanged.
C22_SecondCallYieldsTheSame ==
    /\ (impl = "runner" /\ calls = 2) => pc # "error"
    /\ (impl = "runner" /\ calls = 2 /\ pc = "done") => SameSelections
    /\ (pricing_pc # "off" /\ calls = 2) => pricing_pc # "error"
    /\ (pricing_pc = "returned" /\ calls = 2) => SamePricing
    /\ pricing_pc # "off" => TablesUnchanged

\* a second pricing call has returned, for an unknown SKU, a test priced by a
\* partial match and a contingency that was halfway and rounded up
C22_Witness ==
    /\ calls = 2
    /\ pricing_pc = "returned"
    /\ \E i \in 1..Len(material_costs) :
          KeyIndex(product_prices, material_costs[i].sku) = 0
    /\ testing_costs # <<>>
    /\ rounding.summary[1]

----------------------------------------------------------------------------
(* Further claims about the scorers, checked under SpecScore *)

\* the attribute names that do not occur in the requirement
OtherNames(requirement) == {a \in UsedAttrs : ~HasKey(requirement, a)}

\* the candidate with its attributes of these names replaced by the chosen
\* ones (Missing: the candidate has no attribute of the name)
WithAttributes(candidate, names, chosen) ==
    LET value(a) == IF a \in names THEN chosen[a]
                    ELSE IF HasKey(candidate, a) THEN DictGet(candidate, a, PyNone)
                    ELSE Missing
    IN SelectSeq([i \in 1..MaxAttrs |-> [k |-> AttrNames[i], v |-> value(AttrNames[i])]],
                 LAMBDA e : e.v # Missing)

\* the candidates that differ from this one at most in attributes whose names
\* do not occur in the requirement
Variants(candidate, requirement) ==
    {WithAttributes(candidate, OtherNames(requirement), chosen) :
        chosen \in [OtherNames(requirement) -> OemSpecValues \cup {Missing}]}

\* the scorer that was called returns the same for the other candidates
ScoresTheSame(others) ==
    IF scored = "runner"
    THEN \E tie \in BOOLEAN :
            /\ score = spec_match_percentage(rfp_specs, oem_specs, tie)
            /\ \A other \in others : score = spec_match_percentage(rfp_specs, other, tie)
    ELSE \A other \in others : score = calculate_spec_match(rfp_specs, other)

\* C23: the comparison details of a scorer have exactly the attribute names of
\* the requirement, and a candidate that differs only in attributes whose
\* names do not occur in the requirement (added, removed or changed) gets the
\* same percentage and the same details.
C23_OnlyRequirementAttributesCount ==
    (ScoreReturned /\ IsDict(oem_specs))
    => /\ [i \in 1..Len(score.details) |-> score.details[i].k]
              = [i \in 1..Len(rfp_specs) |-> rfp_specs[i].k]
       /\ ScoresTheSame(Variants(oem_specs, rfp_specs))

\* the runner scored a requirement of one attribute, which matched, against a
\* candidate that has another attribute as well, with a value
C23_Witness ==
    /\ scored = "runner"
    /\ Len(rfp_specs) = 1
    /\ Len(oem_specs) = 2
    /\ \E i \in 1..2 : oem_specs[i].k # rfp_specs[1].k /\ oem_specs[i].v # PyNone
    /\ score.details[1].match

----------------------------------------------------------------------------
(* Claims about the normaliser, checked under SpecCompare *)

\* the digit, '.' and '-' characters of the string, in order
NumericPart(s) == SelectSeq(s, LAMBDA ch : IsDigit(ch) \/ ch = "." \/ ch = "-")

\* float() accepts a string of such characters: a '-' occurs only in front,
\* once, there is at most one '.', and there is a digit
ParseSucceeds(t) ==
    /\ \A i \in 2..Len(t) : t[i] # "-"
    /\ \A i, j \in 1..Len(t) : (t[i] = "." /\ t[j] = ".") => i = j
    /\ \E i \in 1..Len(t) : IsDigit(t[i])

\* the value is what the claim gives for the string
NormalizedString(text, value) ==
    IF (\E i \in 1..Len(text) : IsDigit(text[i])) /\ ParseSucceeds(NumericPart(text))
    THEN value.kind = "float" /\ value.n = ParseFloat(NumericPart(text)).n
    ELSE value = PyStr(Lower(Strip(text)))

NinetyFive ==
    {PyStr(<<"9", "5", " ", "s", "q", "m", "m">>), PyStr(<<"9", "5", "s", "q", "m", "m">>),
     PyInt(95)}

\* C24: normalize_spec_value returns None for None, a number itself, for a
\* string with a digit the float parsed from its digit, '.' and '-' characters
\* when that parse succeeds, and for every other string its trimmed lowercase
\* form; "95 sqmm", "95sqmm" and 95 give the number 95, and the value
\* returned is returned unchanged when it is normalised again.
C24_NormalizeSpecValue ==
    called = "normalizer"
    => /\ rfp_val = PyNone => normalized[1] = PyNone
       /\ IsNumber(rfp_val) => normalized[1] = rfp_val
       /\ rfp_val.kind = "str" => NormalizedString(rfp_val.s, normalized[1])
       /\ rfp_val \in NinetyFive
             => IsNumber(normalized[1]) /\ normalized[1].n = 95 * Scale
       /\ Len(normalized) = 2 => normalized[2] = normalized[1]

\* "1.1kV" was normalised to 1.1, and 1.1 to itself
C24_Witness ==
    /\ called = "normalizer"
    /\ rfp_val = PyStr(<<"1", ".", "1", "k", "V">>)
    /\ normalized = <<PyFloat(Scale + Scale \div 10), PyFloat(Scale + Scale \div 10)>>

----------------------------------------------------------------------------
(* Further claims about the runner, checked under Spec *)

\* C25: recommend_top_3_for_product of the runner reads the catalog and the
\* requirement and modifies neither: when it has returned, the catalog list
\* (its order, entries, prices and specifications) and the requirement are
\* what they were before the call.
C25_RankingLeavesCatalogAndRequirement ==
    [][RunnerProcessProduct => (repo' = repo /\ rfp' = rfp)]_vars

\* the runner has ranked a requirement whose second candidate in catalog order
\* comes first in the recommendations, the catalog holding an entry of another
\* category too, and the catalog and the requirement are those it was given
C25_Witness ==
    /\ impl = "runner"
    /\ idx > 1
    /\ Len(recommendations[1]) >= 2
    /\ \E i, j \in 1..Len(repo) :
          /\ i < j
          /\ recommendations[1][1].sku = repo[j].sku
          /\ recommendations[1][2].sku = repo[i].sku
    /\ Len(RunnerCandidates(rfp[1].category, repo)) < Len(repo)
    /\ repo = given.repo
    /\ rfp = given.rfp

----------------------------------------------------------------------------
(* backend/orchestrator.py: the workflow graph, and approve_rfp of           *)
(* backend/main.py.  A thread is started with astream(initial_state), stops *)
(* after human_gate (interrupt_after), and is resumed by astream(None) of   *)
(* an approve request.  The calls of the PDF reader, the sales agent and    *)
(* the technical agent return; a node raises where its own code does.       *)

\* Largest number of files of a batch.
MaxFiles == 2
\* Number of approve requests a thread receives.
MaxRequests == 2

Files == {"a.pdf", "b.pdf"}
Requests == 1..MaxRequests

\* the quantities of the products the technical agent may have selected
\* (None: a row without quantity)
ProductLists == {<<>>, <<PyInt(2)>>, <<PyInt(2), PyNone>>}

\* state.get(key, default) of a key that is <<>> when absent
Kept(value, old) == IF keeps_undeclared THEN value ELSE old

\* the edge of human_gate skipped: sales leads to technical
route_after_sales_PastTheGate(file_index, file_paths) ==
    IF file_index >= Len(file_paths) THEN "technical" ELSE "loader"

\* route_after_sales(state)
route_after_sales(file_index, file_paths) ==
    IF file_index >= Len(file_paths) THEN "human_gate" ELSE "loader"

\* workflow.add_edge(node, successor), "END" for END
Edge(node) ==
    CASE node = "loader" -> "sales"
      [] node = "human_gate" -> "technical"
      [] node = "technical" -> "pricing"
      [] node = "pricing" -> "bid"
      [] node = "bid" -> "finalize"
      [] node = "finalize" -> "END"

\* interrupt_after of workflow.compile
InterruptAfter == {"human_gate"}

\* a node has returned its update: the thread has the new values, and the
\* graph goes on to the successor, stops if the node is one to interrupt
\* after, or ends
NodeReturns(node, update, successor) ==
    /\ values' = update
    /\ next_node' = successor
    /\ run' = IF successor = "END" THEN "ended"
              ELSE IF node \in InterruptAfter THEN "interrupted"
              ELSE "running"

\* a node has raised: the run stops, the node is still the next one
NodeRaises ==
    /\ run' = "failed"
    /\ UNCHANGED <<values, next_node>>

\* the graph is about to execute the node
Executing(node) ==
    /\ run = "running"
    /\ next_node = node
    /\ executed' = Append(executed, node)
    /\ UNCHANGED <<resumes, requests, keeps_undeclared, pricing_module,
                   cmpVars, scoreVars, rfpVars, priceVars, callVars, retryVars, quoteVars>>

\* load_pdf_node
load_pdf_node ==
    /\ Executing("loader")
    /\ IF values.file_index >= Len(values.file_paths)
       THEN NodeReturns("loader", values, Edge("loader"))
       ELSE NodeReturns("loader",
                        [values EXCEPT
                            !.file_path = <<values.file_paths[values.file_index + 1]>>],
                        Edge("loader"))

\* the entry sales_analysis_node appends to rfp_results
SalesResult(file_path) == [file_path |-> file_path, stage |-> "sales_done"]

\* sales_analysis_node, and route_after_sales; state["file_path"] raises
\* KeyError when no file was loaded or given
sales_analysis_node ==
    /\ Executing("sales")
    /\ IF values.file_path = <<>>
       THEN NodeRaises
       ELSE NodeReturns("sales",
                        [values EXCEPT
                            !.rfp_results =
                                Kept(Append(values.rfp_results,
                                            SalesResult(values.file_path[1])),
                                     values.rfp_results),
                            !.file_index = values.file_index + 1,
                            !.workflow_status = Kept("running", values.workflow_status)],
                        route_after_sales(values.file_index + 1, values.file_paths))

\* human_gate_node
human_gate_node ==
    /\ Executing("human_gate")
    /\ NodeReturns("human_gate", values, Edge("human_gate"))

\* state["selected_rfp_index"] or state["rfp_results"][index] raises
SelectionRaises(state) ==
    \/ state.selected_rfp_index = <<>>
    \/ state.selected_rfp_index[1] >= Len(state.rfp_results)

\* the rfp_results with the stage of the selected entry set
WithStage(state, stage) ==
    [state.rfp_results EXCEPT ![state.selected_rfp_index[1] + 1].stage = stage]

\* technical_node
technical_node ==
    /\ Executing("technical")
    /\ IF SelectionRaises(values)
       THEN NodeRaises
       ELSE \E products \in ProductLists :
               NodeReturns("technical",
                           [values EXCEPT
                               !.rfp_results = WithStage(values, "ready_for_review"),
                               !.products_matched = products],
                           Edge("technical"))

\* PricingAgent() of backend/agents has no process_rfp_pricing
\* (AttributeError); that of agents raises TypeError for a quantity None
PricingRaises(products) ==
    \/ pricing_module = "backend/agents"
    \/ \E i \in 1..Len(products) : MaterialRaises([quantity |-> products[i]])

\* pricing_node
pricing_node ==
    /\ Executing("pricing")
    /\ IF SelectionRaises(values) \/ PricingRaises(values.products_matched)
       THEN NodeRaises
       ELSE NodeReturns("pricing",
                        [values EXCEPT
                            !.rfp_results = WithStage(values, "pricing_done"),
                            !.workflow_status =
                                Kept("pricing_done", values.workflow_status)],
                        Edge("pricing"))

\* sales_bid_node
sales_bid_node ==
    /\ Executing("bid")
    /\ IF SelectionRaises(values)
       THEN NodeRaises
       ELSE NodeReturns("bid",
                        [values EXCEPT
                            !.workflow_status = Kept("completed", values.workflow_status)],
                        Edge("bid"))

\* finalize_node; state["rfp_results"] raises KeyError when the key is not kept
finalize_node ==
    /\ Executing("finalize")
    /\ IF ~keeps_undeclared
       THEN NodeRaises
       ELSE NodeReturns("finalize",
                        [values EXCEPT
                            !.workflow_status = IF values.workflow_status = ""
                                                THEN "completed"
                                                ELSE values.workflow_status],
                        Edge("finalize"))

\* current_state.values.get("human_approved") == True
AlreadyApproved_Never(state) == FALSE

AlreadyApproved(state) == state.human_approved

\* the response of an approve request
Responds(r, status) ==
    requests' = [requests EXCEPT ![r].pc = "returned", ![r].status = status]

\* approve_rfp up to its first await: the check, update_state and, for an
\* approval, the start of astream(None), for a thread that has paused
ApproveRequest(r) ==
    /\ requests[r].pc = "new"
    /\ "human_gate" \in {executed[i] : i \in 1..Len(executed)}
    /\ IF AlreadyApproved(values)
       THEN /\ Responds(r, "already_approved")
            /\ UNCHANGED <<values, run, resumes>>
       ELSE /\ values' = [values EXCEPT !.human_approved = requests[r].approved]
            /\ IF ~requests[r].approved
               THEN /\ Responds(r, "rejected")
                    /\ UNCHANGED <<run, resumes>>
               ELSE /\ requests' = [requests EXCEPT ![r].pc = "resuming"]
                    /\ run' = IF next_node = "END" THEN "ended" ELSE "running"
                    /\ resumes' = resumes + 1
    /\ UNCHANGED <<next_node, executed, keeps_undeclared, pricing_module,
                   cmpVars, scoreVars, rfpVars, priceVars, callVars, retryVars, quoteVars>>

\* approve_rfp after astream(None): the exception of a node propagates; else
\* the next file of the batch is prepared and the workflow resumed, or all
\* files are complete
ApproveReturns(r) ==
    /\ requests[r].pc = "resuming"
    /\ run # "running"
    /\ IF run = "failed"
       THEN /\ requests' = [requests EXCEPT ![r].pc = "failed"]
            /\ UNCHANGED <<values, run, resumes>>
       ELSE IF values.file_index + 1 < Len(values.file_paths)
       THEN /\ values' = [values EXCEPT
                             !.file_path = <<values.file_paths[values.file_index + 2]>>,
                             !.file_index = values.file_index + 1,
                             !.human_approved = FALSE,
                             !.products_matched = <<>>]
            /\ run' = IF next_node = "END" THEN "ended" ELSE "running"
            /\ resumes' = resumes + 1
            /\ Responds(r, "next_file")
       ELSE /\ Responds(r, "all_complete")
            /\ UNCHANGED <<values, run, resumes>>
    /\ UNCHANGED <<next_node, executed, keeps_undeclared, pricing_module,
                   cmpVars, scoreVars, rfpVars, priceVars, callVars, retryVars, quoteVars>>

\* the initial state of a thread: that of the CLI (file_paths, file_index 0,
\* rfp_results []), of /rfp/upload/trigger (with the first file as file_path)
\* or of /rfp/trigger (a file_path alone); a key AgentState does not declare
\* is there only if the graph keeps such keys
InitialValues ==
    {v \in [file_paths : UNION {[1..n -> Files] : n \in 0..MaxFiles},
            file_index : {0},
            file_path : {<<>>} \cup {<<f>> : f \in Files},
            rfp_results : {<<>>},
            products_matched : {<<>>},
            selected_rfp_index : {<<>>} \cup {<<i>> : i \in 0..(MaxFiles - 1)},
            workflow_status : {""},
            human_approved : {FALSE}] :
        /\ (v.file_paths # <<>> /\ v.file_path # <<>>)
               => v.file_path = <<v.file_paths[1]>>
        /\ ~keeps_undeclared => v.selected_rfp_index = <<>>}

InitGraph ==
    /\ keeps_undeclared \in BOOLEAN
    /\ pricing_module \in {"backend/agents", "agents"}
    /\ values \in InitialValues
    /\ next_node = "loader"
    /\ run = "running"
    /\ executed = <<>>
    /\ resumes = 0
    /\ requests \in [Requests -> [approved : BOOLEAN, pc : {"new"}, status : {""}]]
    /\ IdleCompare
    /\ IdleScore
    /\ IdleRfp
    /\ IdlePricing
    /\ IdleCalls
    /\ IdleRetry
    /\ IdleQuote

NextGraph ==
    \/ load_pdf_node
    \/ sales_analysis_node
    \/ human_gate_node
    \/ technical_node
    \/ pricing_node
    \/ sales_bid_node
    \/ finalize_node
    \/ \E r \in Requests : ApproveRequest(r)
    \/ \E r \in Requests : ApproveReturns(r)

SpecGraph == InitGraph /\ [][NextGraph]_vars

----------------------------------------------------------------------------
(* Claims about the workflow, checked under SpecGraph *)

HasRun(node) == \E i \in 1..Len(executed) : executed[i] = node

\* how often the node was executed
TimesRun(node) == Cardinality({i \in 1..Len(executed) : executed[i] = node})

\* the pairs of nodes of which the second may be executed right after the first
MayFollow ==
    {<<"loader", "sales">>, <<"sales", "loader">>, <<"sales", "human_gate">>,
     <<"human_gate", "technical">>, <<"technical", "pricing">>, <<"pricing", "bid">>,
     <<"bid", "finalize">>}

OneResultPerFile(state) ==
    /\ Len(state.rfp_results) = Len(state.file_paths)
    /\ \A i \in 1..Len(state.file_paths) :
          state.rfp_results[i].file_path = state.file_paths[i]

\* C27: for every file_paths list, the empty one of the CLI included, the
\* loop of loader and sales reaches human_gate without an error, each file
\* analysed once in list order: on entering human_gate file_index is
\* len(file_paths) and rfp_results has one entry per file, in the same order.
C27_LoopEndsAtHumanGate ==
    run # "off"
    => /\ ~(run = "failed" /\ ~HasRun("human_gate"))
       /\ next_node = "human_gate"
             => /\ values.file_index = Len(values.file_paths)
                /\ OneResultPerFile(values)

\* the request was accepted as the approval of the thread
Accepted(r) ==
    requests[r].pc \in {"resuming", "failed"}
    \/ requests[r].status \in {"next_file", "all_complete"}

GroqAttempts == 3

\* what a call of a function passed to a helper may do: return, raise an
\* Exception, or raise a BaseException that is no Exception
\* (KeyboardInterrupt, SystemExit)
Outcomes == {"ok", "Exception", "BaseException"}

\* the number of calls of func made so far
Calls(func) == Cardinality({i \in 1..Len(call_log) : call_log[i] = func})

Returned(func, call) == [kind |-> "returned", by |-> func, call |-> call, exception |-> "none"]

Raised(func, call, exception) == [kind |-> "raised", by |-> func, call |-> call, exception |-> exception]

\* what ends a helper: the value returned or the exception raised by the
\* call-th call of func
Ends(func, call, does) == IF does = "ok" THEN Returned(func, call) ELSE Raised(func, call, does)

\* tenacity's default retry condition and the handlers' "except Exception"
IsException(does) == does = "Exception"

stop_after_attempt_OneFewer(attempt_number) == attempt_number >= GroqAttempts - 1

\* stop=stop_after_attempt(max_attempts)
stop_after_attempt(attempt_number) == attempt_number >= GroqAttempts

\* one attempt of _retry_groq: the result is returned; an Exception is
\* retried until the stop condition holds and then raised again
\* (reraise=True) into the handler, which calls openai_func; anything else
\* raised passes through both
CallGroq ==
    /\ strategy = "groq_with_openai_fallback"
    /\ retry_pc = "groq_func"
    /\ LET attempt_number == Calls("groq_func") + 1
           does == outcomes.groq_func[attempt_number]
       IN  /\ call_log' = Append(call_log, "groq_func")
           /\ IF IsException(does)
              THEN /\ retry_pc' = IF stop_after_attempt(attempt_number) THEN "openai_func" ELSE "groq_func"
                   /\ outcome' = outcome
              ELSE /\ retry_pc' = "done"
                   /\ outcome' = Ends("groq_func", attempt_number, does)
    /\ UNCHANGED <<strategy, outcomes>>
    /\ UNCHANGED <<cmpVars, scoreVars, rfpVars, priceVars, callVars, graphVars, quoteVars>>

\* return openai_func(*args, **kwargs), in the handler
CallOpenAI ==
    /\ strategy = "groq_with_openai_fallback"
    /\ retry_pc = "openai_func"
    /\ call_log' = Append(call_log, "openai_func")
    /\ retry_pc' = "done"
    /\ outcome' = Ends("openai_func", Calls("openai_func") + 1, outcomes.openai_func)
    /\ UNCHANGED <<strategy, outcomes>>
    /\ UNCHANGED <<cmpVars, scoreVars, rfpVars, priceVars, callVars, graphVars, quoteVars>>

\* with_fallback: return primary_func(*args, **kwargs)
CallPrimary ==
    /\ strategy = "with_fallback"
    /\ retry_pc = "primary_func"
    /\ call_log' = Append(call_log, "primary_func")
    /\ IF IsException(outcomes.primary_func)
       THEN /\ retry_pc' = "fallback_func"
            /\ outcome' = outcome
       ELSE /\ retry_pc' = "done"
            /\ outcome' = Ends("primary_func", Calls("primary_func") + 1, outcomes.primary_func)
    /\ UNCHANGED <<strategy, outcomes>>
    /\ UNCHANGED <<cmpVars, scoreVars, rfpVars, priceVars, callVars, graphVars, quoteVars>>

\* with_fallback: return fallback_func(*args, **kwargs); its Exception is
\* logged and raised again, anything else it raises is not caught
CallFallback ==
    /\ strategy = "with_fallback"
    /\ retry_pc = "fallback_func"
    /\ call_log' = Append(call_log, "fallback_func")
    /\ retry_pc' = "done"
    /\ outcome' = Ends("fallback_func", Calls("fallback_func") + 1, outcomes.fallback_func)
    /\ UNCHANGED <<strategy, outcomes>>
    /\ UNCHANGED <<cmpVars, scoreVars, rfpVars, priceVars, callVars, graphVars, quoteVars>>

InitRetry ==
    /\ \/ /\ strategy = "groq_with_openai_fallback"
          /\ retry_pc = "groq_func"
          /\ outcomes \in [groq_func : [1..GroqAttempts -> Outcomes], openai_func : Outcomes]
       \/ /\ strategy = "with_fallback"
          /\ retry_pc = "primary_func"
          /\ outcomes \in [primary_func : Outcomes, fallback_func : Outcomes]
    /\ call_log = <<>>
    /\ outcome = <<>>
    /\ IdleCompare
    /\ IdleScore
    /\ IdleRfp
    /\ IdlePricing
    /\ IdleCalls
    /\ IdleGraph
    /\ IdleQuote

NextRetry ==
    \/ CallGroq
    \/ CallOpenAI
    \/ CallPrimary
    \/ CallFallback

SpecRetry == InitRetry /\ [][NextRetry]_vars

\* ---------------------------------------------------------------------
\* C29
\* ---------------------------------------------------------------------

\* the first attempt of groq_func that returns, 0 when none does
FirstSuccess == IF \E k \in 1..GroqAttempts : outcomes.groq_func[k] = "ok" THEN CHOOSE k \in 1..GroqAttempts : outcomes.groq_func[k] = "ok" /\ \A j \in 1..(k - 1) : outcomes.groq_func[j] # "ok" ELSE 0

\* the attempts of groq_func before the k-th all failed with an Exception
FailedBefore(k) == \A j \in 1..(k - 1) : outcomes.groq_func[j] = "Exception"

GroqThenOpenAI ==
    /\ Calls("groq_func") <= GroqAttempts
    /\ Calls("openai_func") <= 1
    /\ Calls("openai_func") = 1 =>
          /\ call_log = <<"groq_func", "groq_func", "groq_func", "openai_func">>
          /\ FailedBefore(GroqAttempts + 1)
    /\ retry_pc = "done" =>
          /\ (FirstSuccess # 0 /\ FailedBefore(FirstSuccess)) =>
                /\ outcome = Returned("groq_func", FirstSuccess)
                /\ Calls("groq_func") = FirstSuccess
                /\ Calls("openai_func") = 0
          /\ FailedBefore(GroqAttempts + 1) =>
                /\ Calls("groq_func") = GroqAttempts
                /\ Calls("openai_func") = 1
                /\ outcome = Ends("openai_func", 1, outcomes.openai_func)

PrimaryThenFallback ==
    /\ Calls("primary_func") <= 1
    /\ Calls("fallback_func") <= 1
    /\ Calls("fallback_func") = 1 =>
          /\ call_log = <<"primary_func", "fallback_func">>
          /\ outcomes.primary_func # "ok"
    /\ retry_pc = "done" =>
          /\ outcomes.primary_func = "ok" =>
                /\ outcome = Returned("primary_func", 1)
                /\ Calls("fallback_func") = 0
          /\ outcomes.primary_func = "Exception" =>
                /\ Calls("fallback_func") = 1
                /\ outcomes.fallback_func = "ok" => outcome = Returned("fallback_func", 1)
                /\ outcomes.fallback_func # "ok" => outcome = Raised("fallback_func", 1, outcomes.fallback_func)

\* C29: groq_with_openai_fallback calls the Groq function at most 3 times,
\* returns the result of its first successful attempt without calling
\* the OpenAI function, and calls the OpenAI function exactly once and only
\* after 3 attempts of the Groq function raised an Exception; with_fallback
\* calls the fallback exactly once and only after the primary raised, and
\* what the fallback raises reaches the caller.
C29_FallbackOnlyAfterFailure ==
    /\ strategy = "groq_with_openai_fallback" => GroqThenOpenAI
    /\ strategy = "with_fallback" => PrimaryThenFallback

\* the Groq function failed three times and the OpenAI function was called
C29_Witness ==
    /\ strategy = "groq_with_openai_fallback"
    /\ retry_pc = "done"
    /\ call_log = <<"groq_func", "groq_func", "groq_func", "openai_func">>
    /\ outcome = Raised("openai_func", 1, "Exception")

\* ---------------------------------------------------------------------
\* PricingAgent.calculate_quote (src/backend/agents/pricing_agent.py)
\* ---------------------------------------------------------------------

\* the longest list of selected items
MaxQuoteItems == 2

\* An item is a dict; a key it does not have is Missing.  total_price,
\* unit_price and quantity are the keys of the Technical Agent's format;
\* matched_product and line_item, the legacy format, are None or a dict,
\* here QuoteDict of its "price" or "quantity" value.
QuoteDict(value) == [kind |-> "dict", n |-> 0, negz |-> FALSE, s |-> <<value>>]

QuoteItems ==
    [total_price : {Missing, PyNone, PyFloat(100500)},
     unit_price : {Missing, PyInt(10)},
     quantity : {Missing, PyInt(2)},
     matched_product : {Missing, PyNone, QuoteDict(PyInt(10))},
     line_item : {Missing, QuoteDict(Missing), QuoteDict(PyInt(2))}]

\* the new format has unit_price and quantity together
QuoteInputs == {item \in QuoteItems : (item.unit_price = Missing) <=> (item.quantity = Missing)}

\* "matched_product" in item and item["matched_product"]
HasMatchedProduct(item) == item.matched_product \notin {Missing, PyNone}

\* the branch an item takes adds nothing, adds a number, or raises:
\* item["line_item"] of a missing key is a KeyError, None.get an
\* AttributeError
QuoteItemRaises(item) ==
    /\ item.total_price = Missing
    /\ HasMatchedProduct(item)
    /\ item.line_item \in {Missing, PyNone}

\* what the loop body adds to total_cost for one item
QuoteItemCost(item) ==
    IF item.total_price # Missing
    THEN IF item.total_price # PyNone THEN item.total_price.n ELSE 0
    ELSE IF HasMatchedProduct(item)
         THEN Times(GetOr(item.matched_product.s[1], PyInt(0)).n, GetOr(item.line_item.s[1], PyInt(1)).n)
         ELSE 0

RECURSIVE QuoteTotal(_, _)
\* total_cost after the first n items
QuoteTotal(items, n) ==
    IF n = 0 THEN 0 ELSE QuoteTotal(items, n - 1) + QuoteItemCost(items[n])

calculate_quote(items) == RoundMoney(QuoteTotal(items, Len(items)))

CallCalculateQuote ==
    /\ quote_pc = "call"
    /\ IF \E i \in 1..Len(selected_products) : QuoteItemRaises(selected_products[i])
       THEN /\ quote_pc' = "raised"
            /\ quote' = quote
       ELSE /\ quote_pc' = "returned"
            /\ quote' = calculate_quote(selected_products)
    /\ UNCHANGED selected_products
    /\ UNCHANGED <<cmpVars, scoreVars, rfpVars, priceVars, callVars, graphVars, retryVars>>

InitQuote ==
    /\ selected_products \in UNION {[1..n -> QuoteInputs] : n \in 0..MaxQuoteItems}
    /\ quote_pc = "call"
    /\ quote = 0
    /\ IdleCompare
    /\ IdleScore
    /\ IdleRfp
    /\ IdlePricing
    /\ IdleCalls
    /\ IdleGraph
    /\ IdleRetry

NextQuote == CallCalculateQuote

SpecQuote == InitQuote /\ [][NextQuote]_vars

\* ---------------------------------------------------------------------
\* C30
\* ---------------------------------------------------------------------

\* a total_price is available: the key is there and its value is not None
HasUsableTotal(item) == item.total_price \notin {Missing, PyNone}

\* the item carries a price and a quantity, in either format
CarriesPriceAndQuantity(item) ==
    \/ item.unit_price # Missing /\ item.quantity # Missing
    \/ /\ HasMatchedProduct(item)
       /\ item.matched_product.s[1] # Missing
       /\ item.line_item \notin {Missing, PyNone}
       /\ item.line_item.s[1] # Missing

\* price * quantity of an item that carries both
PriceTimesQuantity(item) ==
    IF item.unit_price # Missing
    THEN Times(item.unit_price.n, item.quantity.n)
    ELSE Times(item.matched_product.s[1].n, item.line_item.s[1].n)

\* what the item is to contribute; for an item with neither a total nor a
\* price and a quantity nothing is required
RequiredCost(item) ==
    IF HasUsableTotal(item) THEN item.total_price.n
    ELSE IF CarriesPriceAndQuantity(item) THEN PriceTimesQuantity(item)
    ELSE QuoteItemCost(item)

RECURSIVE RequiredTotal(_, _)
RequiredTotal(items, n) ==
    IF n = 0 THEN 0 ELSE RequiredTotal(items, n - 1) + RequiredCost(items[n])

\* C30: calculate_quote returns, rounded to 2 decimals, the sum over the
\* items of the item's total_price when one is available and otherwise of
\* its price times its quantity; an item with a price and a quantity but
\* no usable total_price (key absent, or None) contributes price * quantity.
C30_QuoteSumsTotalsOrPriceTimesQuantity ==
    /\ quote_pc = "returned" => quote = RoundMoney(RequiredTotal(selected_products, Len(selected_products)))
    /\ quote_pc = "raised" => \E i \in 1..Len(selected_products) : ~HasUsableTotal(selected_products[i]) /\ ~CarriesPriceAndQuantity(selected_products[i])

====
